---------------------------- MODULE Spec2Model ----------------------------
(* A model of the safe_vault node core: the DataHandler dispatch and its   *)
(* duplication dedup set (src/src/data_handler/mod.rs), the payment-gated  *)
(* write pipeline (src/src/node/elder_duties/key_section/payment/mod.rs)   *)
(* and the node role / genesis state machine (src/src/node/handle.rs).     *)
(* Each component has its own specification over the shared variables; a   *)
(* component's actions leave the other components' variables unchanged.    *)
EXTENDS Integers, Sequences, FiniteSets, TLC

(***************************************************************************)
(* Bounds                                                                  *)
(***************************************************************************)
\* DuplicateOrders delivered to one node in a run
MaxOrders == 2
\* payment amounts range over 0..MaxAmount
MaxAmount == 2
\* BeginFormingGenesisSection duties that take effect at one node in a run
MaxBegins == 2
\* try_insert calls on one TransferStore in a run (past ten, so that the keys
\* "10" sorts differently as a string and as a number)
MaxEvents == 11
\* try_insert calls on a TransferStore opened on a db file of any content
MaxOpenedInserts == 2

MsgIds == {1, 2}
Addrs == {"A"}
Nodes == {"n1", "n2"}
HolderSets == {{"n1"}, {"n1", "n2"}}
SrcKinds == {"Section", "Node"}
RequesterKinds == {"Client", "Node"}

VARIABLES
    \* ---- DataHandler (data_handler/mod.rs) ----
    idata_handler,        \* Option<IDataHandler>: present iff Elder; its pending ops
    idata_holder,         \* IDataHolder: addresses of the chunks on local disk
    idata_duplicate_op,   \* BTreeSet<MessageId>
    dh_in,                \* the kind, source and requester of the rpc handled last
    dh_ret,               \* Option<Action> returned by the last step
    gets_sent,            \* per message id: duplication Gets emitted so far
    dup_stored,           \* per message id: Ok duplication responses stored so far
    orders_rcvd,          \* DuplicateOrders delivered so far
    dup_outstanding,      \* ids with an order delivered and no GetIData response since
    \* ---- Payments and its ReplicaManager (payment/mod.rs, transfers/store.rs) ----
    replicas_pk_set,      \* ReplicaManager's key set: "None" or the section key
    transfer_db,          \* the TransferStore's PickleDb: a set of <<key, event>>
    pay_in,               \* the message handled by the last process_payment
    pay_calls,            \* the replica calls that run made, in order, with results
    pay_ret,              \* Option<NodeOperation> it returned
    \* ---- Node (node/handle.rs) ----
    genesis_stage,        \* GenesisStage, with the signature shares collected
    chunks,               \* Option<Chunks> is Some
    meta_data,            \* Option<Metadata> is Some
    transfers,            \* Option<Transfers> is Some
    section_funds,        \* Option<SectionFunds>: "None", "Rewarding" or "Churning"
    genesis_events,       \* genesis TransferPropagated events in the section wallet
    genesis_level_ups,    \* calls of level_up(Some(genesis_tx)) so far
    begins,               \* BeginFormingGenesisSection duties that set the stage
    node_duty,            \* the duty handled by the last step
    node_ret,             \* "Ok" or the error it returned
    \* ---- Adult data duties (duties/adult/data/mod.rs) ----
    chunk_storage,        \* ChunkStorage: addresses of the chunks on disk
    ad_in,                \* the message handled last, with its signature
    ad_ret,               \* Option<Action> returned by the last receive_msg
    \* ---- TransferStore (transfers/store.rs) ----
    ts_db,                \* the PickleDb in memory: a set of <<key, event>>
    ts_disk,              \* the db file of this wallet id
    ts_log,               \* the events whose try_insert returned Ok, in order
    ts_left,              \* try_insert calls still to come in this run
    ts_op,                \* the operation of the last step
    ts_ret,               \* its Result
    \* ---- the replica mutex shared by Payments and Transfers ----
    rp_lock,              \* Arc<Mutex<ReplicaManager>>: "free" or the task holding it
    rp_pc,                \* per payment task: where process_payment stands
    rp_credit,            \* per payment task: the credit id of its payment
    rp_db,                \* the section wallet's TransferStore
    rp_last,              \* the task and replica call of the last step
    \* ---- check_data over the test nodes (mock_crust_detail/mod.rs) ----
    cd_stored,            \* per test node: the versions of the data it stores
    cd_data,              \* the data item of all_data that is checked
    cd_close_group_len,   \* close_group_len of the node closest to the data
    cd_result,            \* "none", "passed" or "panicked"
    \* ---- a section: one Elder chunk handler and its Adults ----
    sec_live,             \* the Adults that are members of the section
    sec_index,            \* the Elder's holder index of address A
    sec_disk,             \* the Adults that have the chunk of A on disk
    sec_duplicate_op,     \* per Adult: its idata_duplicate_op
    sec_net,              \* the messages in flight
    sec_removed,          \* the holders of A that were lost, in order
    sec_last,             \* the handler that ran last, and where
    \* ---- nodes_and_clients (mock_crust_detail/poll.rs) ----
    pl_queue,             \* per node and client: the events waiting in its queue
    pl_count,             \* count
    pl_prev_count,        \* prev_count
    pl_pc,                \* "loop", "poll", "check" or "returned"
    pl_i,                 \* the node or client the for loops have come to
    pl_left,              \* events the nodes and clients will still produce
    pl_handled,           \* events handled by all polls so far
    pl_round,             \* events handled in the round under way
    pl_result             \* the value returned, -1 before the return

dhVars == <<idata_handler, idata_holder, idata_duplicate_op, dh_in, dh_ret,
            gets_sent, dup_stored, orders_rcvd, dup_outstanding>>

payVars == <<replicas_pk_set, transfer_db, pay_in, pay_calls, pay_ret>>

nodeVars == <<genesis_stage, chunks, meta_data, transfers, section_funds,
              genesis_events, genesis_level_ups, begins, node_duty, node_ret>>

adVars == <<chunk_storage, ad_in, ad_ret>>

tsVars == <<ts_db, ts_disk, ts_log, ts_left, ts_op, ts_ret>>

rpVars == <<rp_lock, rp_pc, rp_credit, rp_db, rp_last>>

cdVars == <<cd_stored, cd_data, cd_close_group_len, cd_result>>

secVars == <<sec_live, sec_index, sec_disk, sec_duplicate_op, sec_net, sec_removed,
             sec_last>>

plVars == <<pl_queue, pl_count, pl_prev_count, pl_pc, pl_i, pl_left, pl_handled,
           pl_round, pl_result>>

vars == <<dhVars, payVars, nodeVars, adVars, tsVars, rpVars, cdVars, secVars, plVars>>

notDhVars == <<payVars, nodeVars, adVars, tsVars, rpVars, cdVars, secVars, plVars>>
notPayVars == <<dhVars, nodeVars, adVars, tsVars, rpVars, cdVars, secVars, plVars>>
notNodeVars == <<dhVars, payVars, adVars, tsVars, rpVars, cdVars, secVars, plVars>>
notAdVars == <<dhVars, payVars, nodeVars, tsVars, rpVars, cdVars, secVars, plVars>>
notTsVars == <<dhVars, payVars, nodeVars, adVars, rpVars, cdVars, secVars, plVars>>
notCdVars == <<dhVars, payVars, nodeVars, adVars, tsVars, rpVars, secVars, plVars>>
notSecVars == <<dhVars, payVars, nodeVars, adVars, tsVars, rpVars, cdVars, plVars>>
notRpVars == <<dhVars, payVars, nodeVars, adVars, tsVars, cdVars, secVars, plVars>>
notPlVars == <<dhVars, payVars, nodeVars, adVars, tsVars, rpVars, cdVars, secVars>>

(***************************************************************************)
(* Actions returned by the handlers                                        *)
(***************************************************************************)
NoAction == [kind |-> "None"]

NoHandler == [present |-> FALSE, ops |-> {}, index |-> {}]

\* Action::SendMessage { sender: our_name, targets: holders,
\*   rpc: Rpc::Request { IData(Get(address)), requester: Node(our_id), message_id } }
DuplicationGetForClient(address, holders, message_id) ==
    [kind |-> "SendMessage", sender |-> "self", targets |-> holders,
     request |-> "Get", address |-> address, requester |-> "Client",
     requester_id |-> "self", message_id |-> message_id]

DuplicationGet(address, holders, message_id) ==
    [kind |-> "SendMessage", sender |-> "self", targets |-> holders,
     request |-> "Get", address |-> address, requester |-> "Node",
     requester_id |-> "self", message_id |-> message_id]

(***************************************************************************)
(* IDataHolder (chunk holder; its code is not among the source files)      *)
(***************************************************************************)
\* store_idata: AlreadyExists when present, QuotaExceeded without space,
\* otherwise the chunk is written; replies Mutation(Ok|Err) to the source,
\* naming the requester and the message id it was called with.
HolderStoreChunks(held, address, has_space) ==
    IF address \in held \/ ~has_space THEN held ELSE held \cup {address}

HolderStoreReply(held, address, has_space, requester, message_id) ==
    [kind |-> "RespondToSrc",
     response |-> IF address \in held THEN "MutationErrAlreadyExists"
                  ELSE IF ~has_space THEN "MutationErrQuotaExceeded"
                  ELSE "MutationOk",
     address |-> address, requester |-> requester, message_id |-> message_id]

\* get_idata: replies GetIData(Ok(bytes) | Err(NotFound)).
HolderGetReply(held, address, message_id) ==
    [kind |-> "RespondToSrc",
     response |-> IF address \in held THEN "GetIDataOk" ELSE "GetIDataErrNoSuchData",
     address |-> address, message_id |-> message_id]

\* delete_unpub_idata: removes the chunk when the requester owns it.
HolderDeleteChunks(held, address, is_owner) ==
    IF address \in held /\ is_owner THEN held \ {address} ELSE held

HolderDeleteReply(held, address, is_owner, message_id) ==
    [kind |-> "RespondToSrc",
     response |-> IF address \notin held THEN "MutationErrNoSuchData"
                  ELSE IF ~is_owner THEN "MutationErrAccessDenied"
                  ELSE "MutationOk",
     address |-> address, message_id |-> message_id]

(***************************************************************************)
(* IDataHandler (Elder-side chunk handler; not among the source files)     *)
(***************************************************************************)
\* A client request opens one op per message id and fans out to the holders.
HandlerOpenOps(handler, message_id) ==
    [handler EXCEPT !.ops = @ \cup {message_id}]

HandlerOpenReply(handler, op, address, message_id) ==
    IF message_id \in handler.ops THEN NoAction
    ELSE [kind |-> "SendToHolders", request |-> op, address |-> address,
          message_id |-> message_id]

\* A holder response closes the op and is forwarded to the client; a response
\* for an op that is not pending is discarded.
HandlerCloseOps(handler, message_id) ==
    [handler EXCEPT !.ops = @ \ {message_id}]

HandlerCloseReply(handler, response, message_id) ==
    IF message_id \in handler.ops
    THEN [kind |-> "RespondToClient", response |-> response, message_id |-> message_id]
    ELSE NoAction

\* update_idata_holders: a successful copy enters the holder index as a new
\* holder of the chunk; nothing is sent.
HandlerUpdateHolders(handler, response) ==
    IF response = "MutationOk" THEN [handler EXCEPT !.index = @ \cup {"new_holder"}]
    ELSE handler

(***************************************************************************)
(* DataHandler                                                             *)
(***************************************************************************)
\* PublicId::Node(self.id.clone()): this node as the requester of a store
OurIdAsClient == "Client"

OurId == "NodeSelf"

\* Response::Mutation(result)
IsMutationResponse(resp) == resp \in {"MutationOk", "MutationErr"}

\* Response::GetIData(result)
IsGetIDataResponseOrOther(resp) == ~IsMutationResponse(resp)

IsGetIDataResponse(resp) == resp \in {"GetIDataOk", "GetIDataErr"}

\* handle_idata_request: run the operation on the Elder handler, or drop
\* ("Not applicable to Adults").
HandleIDataRequestAnyRole(handler1, ret) ==
    /\ idata_handler' = handler1
    /\ dh_ret' = ret

HandleIDataRequest(handler1, ret) ==
    IF idata_handler.present
    THEN /\ idata_handler' = handler1
         /\ dh_ret' = ret
    ELSE /\ idata_handler' = idata_handler
         /\ dh_ret' = NoAction

\* Whether a GetIData response belongs to a duplication in progress.
IsDuplicationResponseAlways(message_id) == TRUE

IsDuplicationResponse(message_id) == message_id \in idata_duplicate_op

\* The dedup set after an Ok duplication response has been handled.
DuplicateOpAfterStoreKeep(message_id) == idata_duplicate_op

DuplicateOpAfterStore(message_id) == idata_duplicate_op \ {message_id}

\* The dedup set after an Err duplication response: the else arm returns None.
DuplicateOpAfterErrDrop(message_id) == idata_duplicate_op \ {message_id}

DuplicateOpAfterErr(message_id) == idata_duplicate_op

HandleResponse(src, resp, address, has_space, message_id) ==
    /\ dh_in' = [kind |-> "Response", src |-> src, requester |-> "Node", what |-> resp,
                 message_id |-> message_id]
    /\ UNCHANGED <<gets_sent, orders_rcvd>>
    /\ UNCHANGED notDhVars
    /\ CASE IsMutationResponse(resp) ->
              /\ HandleIDataRequest(HandlerCloseOps(idata_handler, message_id),
                                    HandlerCloseReply(idata_handler, resp, message_id))
              /\ UNCHANGED <<idata_holder, idata_duplicate_op, dup_stored, dup_outstanding>>
         [] IsGetIDataResponse(resp) ->
              /\ dup_outstanding' = dup_outstanding \ {message_id}
              /\ IF IsDuplicationResponse(message_id)
                 THEN IF resp = "GetIDataOk"
                      THEN /\ idata_duplicate_op' = DuplicateOpAfterStore(message_id)
                           /\ idata_holder' = HolderStoreChunks(idata_holder, address, has_space)
                           /\ dh_ret' = HolderStoreReply(idata_holder, address, has_space,
                                                         OurId, message_id)
                           /\ dup_stored' = [dup_stored EXCEPT ![message_id] = @ + 1]
                           /\ UNCHANGED idata_handler
                      ELSE /\ dh_ret' = NoAction
                           /\ idata_duplicate_op' = DuplicateOpAfterErr(message_id)
                           /\ UNCHANGED <<idata_handler, idata_holder, dup_stored>>
                 ELSE /\ HandleIDataRequest(HandlerCloseOps(idata_handler, message_id),
                                            HandlerCloseReply(idata_handler, resp, message_id))
                      /\ UNCHANGED <<idata_holder, idata_duplicate_op, dup_stored>>
         [] OTHER ->
              /\ dh_ret' = NoAction
              /\ UNCHANGED <<idata_handler, idata_holder, idata_duplicate_op, dup_stored,
                             dup_outstanding>>

\* Get is served from the local holder for a section source or a node requester.
GetIsForHolderSectionOnly(src, requester) == src = "Section"

GetIsForHolder(src, requester) == src = "Section" \/ requester = "Node"

\* IDataRequest::Put: src.is_section() means this node was chosen as a holder.
PutIsForHolderAdultOnly(src) == src = "Section" /\ ~idata_handler.present

PutIsForHolder(src) == src = "Section"

\* IDataRequest::DeleteUnpub: the same test.
DeleteIsForHolder(src) == src = "Section"

HandleRequest(src, requester, req, address, flag, message_id) ==
    /\ dh_in' = [kind |-> "Request", src |-> src, requester |-> requester, what |-> req,
                 message_id |-> message_id]
    /\ UNCHANGED <<idata_duplicate_op, gets_sent, dup_stored, orders_rcvd, dup_outstanding>>
    /\ UNCHANGED notDhVars
    /\ CASE req = "Put" ->
              IF PutIsForHolder(src)
              THEN /\ idata_holder' = HolderStoreChunks(idata_holder, address, flag)
                   /\ dh_ret' = HolderStoreReply(idata_holder, address, flag, requester,
                                                 message_id)
                   /\ UNCHANGED idata_handler
              ELSE /\ HandleIDataRequest(HandlerOpenOps(idata_handler, message_id),
                                         HandlerOpenReply(idata_handler, req, address,
                                                          message_id))
                   /\ UNCHANGED idata_holder
         [] req = "Get" ->
              IF GetIsForHolder(src, requester)
              THEN /\ dh_ret' = HolderGetReply(idata_holder, address, message_id)
                   /\ UNCHANGED <<idata_handler, idata_holder>>
              ELSE /\ HandleIDataRequest(HandlerOpenOps(idata_handler, message_id),
                                         HandlerOpenReply(idata_handler, req, address,
                                                          message_id))
                   /\ UNCHANGED idata_holder
         [] req = "DeleteUnpub" ->
              IF DeleteIsForHolder(src)
              THEN /\ idata_holder' = HolderDeleteChunks(idata_holder, address, flag)
                   /\ dh_ret' = HolderDeleteReply(idata_holder, address, flag, message_id)
                   /\ UNCHANGED idata_handler
              ELSE /\ HandleIDataRequest(HandlerOpenOps(idata_handler, message_id),
                                         HandlerOpenReply(idata_handler, req, address,
                                                          message_id))
                   /\ UNCHANGED idata_holder
         [] req \in {"MData", "AData"} ->
              \* mdata_handler / adata_handler are Some exactly when idata_handler is
              /\ dh_ret' = IF idata_handler.present
                           THEN [kind |-> "RespondToClient", response |-> req,
                                 message_id |-> message_id]
                           ELSE NoAction
              /\ UNCHANGED <<idata_handler, idata_holder>>
         [] OTHER ->
              \* Coins, LoginPacket, Client
              /\ dh_ret' = NoAction
              /\ UNCHANGED <<idata_handler, idata_holder>>

\* The dedup set after a DuplicationComplete: complete_duplication does not
\* touch it.
DuplicateOpAfterCompletePruned(message_id) == idata_duplicate_op \ {message_id}

DuplicateOpAfterComplete(message_id) == idata_duplicate_op

CompleteDuplication(src, resp, message_id) ==
    /\ dh_in' = [kind |-> "DuplicationComplete", src |-> src, requester |-> "Node",
                 what |-> resp, message_id |-> message_id]
    /\ idata_duplicate_op' = DuplicateOpAfterComplete(message_id)
    /\ UNCHANGED <<idata_holder, gets_sent, dup_stored, orders_rcvd, dup_outstanding>>
    /\ UNCHANGED notDhVars
    /\ IF IsMutationResponse(resp)
       THEN HandleIDataRequest(HandlerUpdateHolders(idata_handler, resp), NoAction)
       ELSE /\ dh_ret' = NoAction
            /\ UNCHANGED idata_handler

TriggerChunkDuplication(node) ==
    /\ dh_in' = [kind |-> "MemberLost", src |-> "Node", requester |-> "Node",
                 what |-> "MemberLost", message_id |-> 0]
    /\ UNCHANGED <<idata_holder, idata_duplicate_op, gets_sent, dup_stored, orders_rcvd,
                   dup_outstanding>>
    /\ UNCHANGED notDhVars
    /\ HandleIDataRequest(idata_handler, [kind |-> "DuplicateOrders", node |-> node])


\* The guard of handle_duplicate_request: a new order is one whose id is not
\* in the dedup set.
IsNewDuplicateOrderLoose(message_id) == TRUE

IsNewDuplicateOrder(message_id) == message_id \notin idata_duplicate_op

HandleDuplicateRequest(address, holders, message_id) ==
    /\ orders_rcvd < MaxOrders
    /\ dh_in' = [kind |-> "Duplicate", src |-> "Node", requester |-> "Node",
                 what |-> "Duplicate", message_id |-> message_id,
                 address |-> address, holders |-> holders]
    /\ orders_rcvd' = orders_rcvd + 1
    /\ dup_outstanding' = dup_outstanding \cup {message_id}
    /\ IF IsNewDuplicateOrder(message_id)
       THEN /\ idata_duplicate_op' = idata_duplicate_op \cup {message_id}
            /\ dh_ret' = DuplicationGet(address, holders, message_id)
            /\ gets_sent' = [gets_sent EXCEPT ![message_id] = @ + 1]
       ELSE /\ idata_duplicate_op' = idata_duplicate_op
            /\ dh_ret' = NoAction
            /\ gets_sent' = gets_sent
    /\ UNCHANGED <<idata_handler, idata_holder, dup_stored>>
    /\ UNCHANGED notDhVars

(***************************************************************************)
(* TransferStore (transfers/store.rs)                                      *)
(***************************************************************************)
Digits == <<"0", "1", "2", "3", "4", "5", "6", "7", "8", "9">>

\* usize::to_string: the decimal digits of n
RECURSIVE UsizeToString(_)
UsizeToString(n) ==
    IF n < 10 THEN <<Digits[n + 1]>>
    ELSE Append(UsizeToString(n \div 10), Digits[(n % 10) + 1])

DigitValue(d) == CHOOSE v \in 0..9 : Digits[v + 1] = d

\* str::parse::<usize>
RECURSIVE ParseKey(_)
ParseKey(k) ==
    IF Len(k) = 1 THEN DigitValue(k[1])
    ELSE 10 * ParseKey(SubSeq(k, 1, Len(k) - 1)) + DigitValue(k[Len(k)])

DbExistsNever(db, key) == FALSE

DbExists(db, key) == \E e \in db : e[1] = key

\* PickleDb::set: the value under the key, every other entry as it was
DbSetAlone(db, key, event) == {<<key, event>>}

DbSet(db, key, event) == {e \in db : e[1] # key} \cup {<<key, event>>}

\* The key try_insert writes: the number of keys, as a string.
NextKeyStale(db) == UsizeToString(0)

NextKeyAhead(db) == UsizeToString(Cardinality(db) + 1)

NextKey(db) == UsizeToString(Cardinality(db))

\* try_insert: [ok, err, db]
TryInsert(db, event, disk_ok) ==
    LET key == NextKey(db) IN
    IF DbExists(db, key) THEN [ok |-> FALSE, err |-> "Logic", db |-> db]
    ELSE IF ~disk_ok THEN [ok |-> FALSE, err |-> "PickleDb", db |-> db]
    ELSE [ok |-> TRUE, err |-> "", db |-> DbSet(db, key, event)]

\* get_all: the events in ascending numeric key order
RECURSIVE SortedEvents(_)
SortedEvents(db) ==
    IF db = {} THEN <<>>
    ELSE LET last == CHOOSE e \in db : \A f \in db : ParseKey(f[1]) <= ParseKey(e[1])
         IN Append(SortedEvents(db \ {last}), last[2])

\* The keys compared as strings
RECURSIVE KeyStringLeq(_, _)
KeyStringLeq(a, b) ==
    IF a = <<>> THEN TRUE
    ELSE IF b = <<>> THEN FALSE
    ELSE IF a[1] # b[1] THEN DigitValue(a[1]) < DigitValue(b[1])
    ELSE KeyStringLeq(Tail(a), Tail(b))

RECURSIVE GetAllStringOrder(_)
GetAllStringOrder(db) ==
    IF db = {} THEN <<>>
    ELSE LET last == CHOOSE e \in db : \A f \in db : KeyStringLeq(f[1], e[1])
         IN Append(GetAllStringOrder(db \ {last}), last[2])

GetAll(db) == SortedEvents(db)

(***************************************************************************)
(* ReplicaManager (its code is not among the source files)                 *)
(***************************************************************************)
Registered(id) == [type |-> "TransferRegistered", id |-> id]
Propagated(id) == [type |-> "TransferPropagated", id |-> id]

RecordedNever(db, event) == FALSE

Recorded(db, event) == \E e \in db : e[2] = event

\* register / receive_propagated: verify the proof, then append the event
\* unless the credit is already recorded.
ReplicaAppend(db, payment, event, disk_ok) ==
    IF ~payment.sig_valid THEN [ok |-> FALSE, err |-> "InvalidSignature", db |-> db]
    ELSE IF Recorded(db, event) THEN [ok |-> TRUE, err |-> "", db |-> db]
    ELSE TryInsert(db, event, disk_ok)

Register(db, payment, disk_ok) ==
    ReplicaAppend(db, payment, Registered(payment.id), disk_ok)

ReceivePropagated(db, payment, disk_ok) ==
    ReplicaAppend(db, payment, Propagated(payment.id), disk_ok)

\* get_store_cost: the current per-byte price times the size, when known
GetStoreCost(price, num_bytes) == price * num_bytes

(***************************************************************************)
(* Payments                                                                *)
(***************************************************************************)
PayError(error, msg) ==
    [kind |-> "Error", error |-> error, correlation_id |-> msg.id, to |-> msg.origin]

PayForward(msg) == [kind |-> "Forward", msg_id |-> msg.id, cmd |-> msg.cmd]

\* section_wallet_id() and the comparison with payment.to()
RecipientIsNotSectionLax(pk_set, payment) == FALSE

RecipientIsNotSection(pk_set, payment) ==
    IF pk_set = "None" THEN TRUE ELSE payment.to # pk_set

\* One replica call with its outcome, as the run's trace records it
Call(name, result) == [call |-> name, result |-> result]

CallResult(r) == IF r.ok THEN "Ok" ELSE r.err

\* register, then receive_propagated only when register succeeded:
\* [ok, err, db, calls]
RegisterAndPropagateBoth(db, payment, env) ==
    LET registration == Register(db, payment, env.disk_reg)
        propagation == ReceivePropagated(registration.db, payment, env.disk_prop)
    IN [ok |-> registration.ok /\ propagation.ok,
        err |-> IF registration.ok THEN propagation.err ELSE registration.err,
        db |-> propagation.db,
        calls |-> <<Call("register", CallResult(registration)),
                    Call("receive_propagated", CallResult(propagation))>>]

RegisterAndPropagate(db, payment, env) ==
    LET registration == Register(db, payment, env.disk_reg) IN
    IF registration.ok
    THEN LET propagation == ReceivePropagated(registration.db, payment, env.disk_prop)
         IN [ok |-> propagation.ok, err |-> propagation.err, db |-> propagation.db,
             calls |-> <<Call("register", "Ok"),
                         Call("receive_propagated", CallResult(propagation))>>]
    ELSE [ok |-> FALSE, err |-> registration.err, db |-> registration.db,
          calls |-> <<Call("register", registration.err)>>]

\* total_cost > payment.amount()
PaymentTooLowStrict(total_cost, amount) == total_cost >= amount

PaymentTooLow(total_cost, amount) == total_cost > amount

CostResult(msg, env) ==
    IF env.cost_known THEN GetStoreCost(env.price, msg.num_bytes) ELSE -1

\* What is returned once registration and propagation succeeded:
\* get_store_cost(num_bytes)? ends the run with None when the cost is unknown
AfterRegistrationAlwaysForward(msg, env) == PayForward(msg)

AfterRegistration(msg, env) ==
    IF ~env.cost_known THEN NoAction
    ELSE IF PaymentTooLow(GetStoreCost(env.price, msg.num_bytes), msg.payment.amount)
    THEN PayError("InsufficientBalance", msg)
    ELSE PayForward(msg)

\* What is returned when registration or propagation failed
RegistrationFailedReplyDrop(error, msg) == NoAction

RegistrationFailedReply(error, msg) == PayError(error, msg)

\* The match on msg.message: Message::Cmd { cmd: Cmd::Data { payment, cmd }, .. }
IsDataCmdOrAny(msg) == TRUE

IsDataCmd(msg) == msg.kind = "CmdData"

\* process_payment: [ret, db, calls]
ProcessPaymentResult(msg, env) ==
    IF ~IsDataCmd(msg)
    THEN [ret |-> NoAction, db |-> transfer_db, calls |-> <<>>]
    ELSE IF RecipientIsNotSection(replicas_pk_set, msg.payment)
    THEN [ret |-> PayError("NoSuchRecipient", msg), db |-> transfer_db,
          calls |-> <<Call("replicas_pk_set", replicas_pk_set)>>]
    ELSE LET result == RegisterAndPropagate(transfer_db, msg.payment, env) IN
         IF result.ok
         THEN [ret |-> AfterRegistration(msg, env), db |-> result.db,
               calls |-> <<Call("replicas_pk_set", replicas_pk_set)>> \o result.calls
                         \o <<[call |-> "get_store_cost", result |-> "Cost",
                               cost |-> CostResult(msg, env)]>>]
         ELSE [ret |-> RegistrationFailedReply(result.err, msg), db |-> result.db,
               calls |-> <<Call("replicas_pk_set", replicas_pk_set)>> \o result.calls]

ProcessPayment(msg, env) ==
    LET r == ProcessPaymentResult(msg, env) IN
    /\ pay_in' = msg
    /\ pay_calls' = r.calls
    /\ pay_ret' = r.ret
    /\ transfer_db' = r.db
    /\ UNCHANGED replicas_pk_set
    /\ UNCHANGED notPayVars

CreditIds == {"k1", "k2"}

Payments == [id : CreditIds, to : {"section", "other"}, amount : 0..MaxAmount,
             sig_valid : BOOLEAN]

NoPayment == [id |-> "k1", to |-> "section", amount |-> 0, sig_valid |-> FALSE]

DataMsgs == [kind : {"CmdData"}, id : {"m1"}, origin : {"c1"}, cmd : {"put"},
             num_bytes : {1, 2}, payment : Payments]

OtherMsgs == [kind : {"Query"}, id : {"m1"}, origin : {"c1"}, cmd : {"put"},
              num_bytes : {1}, payment : {NoPayment}]

PayEnvs == [disk_reg : BOOLEAN, disk_prop : BOOLEAN, cost_known : BOOLEAN, price : {1}]

NoMsg == [kind |-> "Init", id |-> "m1", origin |-> "c1", cmd |-> "put", num_bytes |-> 1,
          payment |-> NoPayment]

PayInit ==
    /\ replicas_pk_set \in {"None", "section"}
    /\ transfer_db = {}
    /\ pay_in = NoMsg
    /\ pay_calls = <<>>
    /\ pay_ret = NoAction

PayNext == \E msg \in DataMsgs \cup OtherMsgs, env \in PayEnvs : ProcessPayment(msg, env)

(***************************************************************************)
(* Genesis (node/genesis.rs and Node::level_up are not among the source    *)
(* files; they follow the genesis protocol: two rounds of threshold        *)
(* signature shares, out-of-order shares buffered)                         *)
(***************************************************************************)
Elders == {"e1", "e2", "e3"}
Threshold == Cardinality(Elders) - 1

NoGenesis == [stage |-> "None", proposals |-> {}, accumulations |-> {}]

StageRank(g) ==
    CASE g.stage = "None" -> 0
      [] g.stage = "ProposingGenesis" -> 1
      [] g.stage = "AccumulatingGenesis" -> 2
      [] OTHER -> 3

GenesisOk(g) == [ok |-> TRUE, err |-> "", stage |-> g]
GenesisErr(err, g) == [ok |-> FALSE, err |-> err, stage |-> g]

\* begin_forming_genesis_section(network_api): sees the network only. While
\* the section is forming it signs the genesis credit and starts round 1.
BeginFormingGenesisSection(net_forming) ==
    IF net_forming
    THEN GenesisOk([stage |-> "ProposingGenesis", proposals |-> {"e1"},
                    accumulations |-> {}])
    ELSE GenesisErr("InvalidOperation", NoGenesis)

\* receive_genesis_proposal(credit, sig, stage, network_api)
ReceiveGenesisProposal(elder, g) ==
    CASE g.stage = "None" -> GenesisErr("InvalidGenesisStage", g)
      [] g.stage = "ProposingGenesis" ->
           LET shares == g.proposals \cup {elder} IN
           IF Cardinality(shares) >= Threshold
           THEN GenesisOk([stage |-> "AccumulatingGenesis", proposals |-> shares,
                           accumulations |-> g.accumulations \cup {"e1"}])
           ELSE GenesisOk([g EXCEPT !.proposals = shares])
      [] OTHER -> GenesisOk(g)

\* receive_genesis_accumulation(signed_credit, sig, stage, network_api)
ReceiveGenesisAccumulation(elder, g) ==
    CASE g.stage = "None" -> GenesisErr("InvalidGenesisStage", g)
      [] g.stage = "ProposingGenesis" ->
           GenesisOk([g EXCEPT !.accumulations = @ \cup {elder}])
      [] g.stage = "AccumulatingGenesis" ->
           LET shares == g.accumulations \cup {elder} IN
           IF Cardinality(shares) >= Threshold
           THEN GenesisOk([stage |-> "Completed", proposals |-> g.proposals,
                           accumulations |-> shares])
           ELSE GenesisOk([g EXCEPT !.accumulations = shares])
      [] OTHER -> GenesisErr("InvalidGenesisStage", g)

\* The section wallet after level_up(Some(genesis_tx)): the genesis credit is
\* recorded once (idempotency by credit id).
GenesisRegistered(events) == IF events = 0 THEN 1 ELSE events

(***************************************************************************)
(* Node::handle                                                            *)
(***************************************************************************)
NodeStep(duty, ret) ==
    /\ node_duty' = duty
    /\ node_ret' = ret
    /\ UNCHANGED notNodeVars

\* level_up: the Elder modules are created; with a genesis transaction the
\* credit is fed to the replica
LevelUpState(with_genesis) ==
    /\ chunks' = TRUE
    /\ meta_data' = TRUE
    /\ transfers' = TRUE
    /\ section_funds' = "Rewarding"
    /\ genesis_events' = IF with_genesis THEN GenesisRegistered(genesis_events)
                         ELSE genesis_events

\* NodeDuty::BeginFormingGenesisSection
HandleBeginFormingGenesisSection(net_forming) ==
    LET r == BeginFormingGenesisSection(net_forming) IN
    /\ begins < MaxBegins
    /\ IF r.ok
       THEN /\ genesis_stage' = r.stage
            /\ begins' = begins + 1
            /\ NodeStep("BeginFormingGenesisSection", "Ok")
       ELSE /\ UNCHANGED <<genesis_stage, begins>>
            /\ NodeStep("BeginFormingGenesisSection", r.err)
    /\ UNCHANGED <<chunks, meta_data, transfers, section_funds, genesis_events,
                   genesis_level_ups>>

\* NodeDuty::ReceiveGenesisProposal
HandleReceiveGenesisProposal(elder) ==
    LET r == ReceiveGenesisProposal(elder, genesis_stage) IN
    /\ IF r.ok
       THEN /\ genesis_stage' = r.stage
            /\ NodeStep("ReceiveGenesisProposal", "Ok")
       ELSE /\ UNCHANGED genesis_stage
            /\ NodeStep("ReceiveGenesisProposal", r.err)
    /\ UNCHANGED <<chunks, meta_data, transfers, section_funds, genesis_events,
                   genesis_level_ups, begins>>

\* The `?` after receive_genesis_accumulation: an error ends the duty.
AccumulationProceedsAlways(r) == TRUE

AccumulationProceeds(r) == r.ok

\* NodeDuty::ReceiveGenesisAccumulation
HandleReceiveGenesisAccumulation(elder, level_up_ok) ==
    LET r == ReceiveGenesisAccumulation(elder, genesis_stage) IN
    IF ~AccumulationProceeds(r)
    THEN /\ NodeStep("ReceiveGenesisAccumulation", r.err)
         /\ UNCHANGED <<genesis_stage, chunks, meta_data, transfers, section_funds,
                        genesis_events, genesis_level_ups, begins>>
    ELSE /\ genesis_stage' = r.stage
         /\ UNCHANGED begins
         /\ IF r.stage.stage # "Completed"
            THEN /\ NodeStep("ReceiveGenesisAccumulation", "Ok")
                 /\ UNCHANGED <<chunks, meta_data, transfers, section_funds,
                                genesis_events, genesis_level_ups>>
            ELSE /\ genesis_level_ups' = genesis_level_ups + 1
                 /\ IF level_up_ok
                    THEN /\ LevelUpState(TRUE)
                         /\ NodeStep("ReceiveGenesisAccumulation", "Ok")
                    ELSE /\ UNCHANGED <<chunks, meta_data, transfers, section_funds,
                                        genesis_events>>
                         /\ NodeStep("ReceiveGenesisAccumulation", "LevelUpFailed")

\* NodeDuty::LevelUp
HandleLevelUp(level_up_ok) ==
    /\ IF level_up_ok
       THEN /\ LevelUpState(FALSE)
            /\ NodeStep("LevelUp", "Ok")
       ELSE /\ UNCHANGED <<chunks, meta_data, transfers, section_funds, genesis_events>>
            /\ NodeStep("LevelUp", "LevelUpFailed")
    /\ UNCHANGED <<genesis_stage, genesis_level_ups, begins>>

\* The genesis stage after LevelDown: the duty does not assign it.
StageAfterLevelDownReset(g) == NoGenesis

StageAfterLevelDown(g) == g

\* NodeDuty::LevelDown
HandleLevelDown(chunks_new_ok) ==
    /\ meta_data' = FALSE
    /\ transfers' = FALSE
    /\ section_funds' = "None"
    /\ genesis_stage' = StageAfterLevelDown(genesis_stage)
    /\ IF chunks_new_ok
       THEN /\ chunks' = TRUE
            /\ NodeStep("LevelDown", "Ok")
       ELSE /\ UNCHANGED chunks
            /\ NodeStep("LevelDown", "ChunksNewFailed")
    /\ UNCHANGED <<genesis_events, genesis_level_ups, begins>>

\* get_rewards / get_transfers / get_chunks / get_metadata
HasCapabilityUnchecked(cap) == TRUE

HasCapability(cap) ==
    CASE cap = "rewards" -> section_funds = "Rewarding"
      [] cap = "transfers" -> transfers
      [] cap = "chunks" -> chunks
      [] OTHER -> meta_data

\* get_rewards borrows section_funds; the option itself is left as it was.
FundsAfterGetRewardsTaken(funds) == "None"

FundsAfterGetRewards(funds) == funds

\* The duties that need a capability: rewards (SetNodeWallet, ...), transfers
\* (PropagateTransfer, ...), chunks (ReadChunk, WriteChunk), meta data
\* (ProcessRead, ProcessWrite)
HandleCapabilityDuty(cap, callee_ok) ==
    /\ NodeStep(cap,
                IF ~HasCapability(cap) THEN "InvalidOperation"
                ELSE IF callee_ok THEN "Ok" ELSE "CalleeFailed")
    /\ section_funds' = IF cap = "rewards" THEN FundsAfterGetRewards(section_funds)
                        ELSE section_funds
    /\ UNCHANGED <<genesis_stage, chunks, meta_data, transfers,
                   genesis_events, genesis_level_ups, begins>>

\* The duties that return Ok(vec![]) at once (ProcessNewMember, NoOp, ...)
HandlePlainDuty ==
    /\ NodeStep("NoOp", "Ok")
    /\ UNCHANGED <<genesis_stage, chunks, meta_data, transfers, section_funds,
                   genesis_events, genesis_level_ups, begins>>

Capabilities == {"rewards", "transfers", "chunks", "meta_data"}

NodeInit ==
    /\ genesis_stage = NoGenesis
    /\ chunks \in BOOLEAN
    /\ meta_data = FALSE
    /\ transfers = FALSE
    /\ section_funds = "None"
    /\ genesis_events = 0
    /\ genesis_level_ups = 0
    /\ begins = 0
    /\ node_duty = "Init"
    /\ node_ret = "Ok"

NodeIdle ==
    /\ genesis_stage = NoGenesis
    /\ chunks = FALSE
    /\ meta_data = FALSE
    /\ transfers = FALSE
    /\ section_funds = "None"
    /\ genesis_events = 0
    /\ genesis_level_ups = 0
    /\ begins = 0
    /\ node_duty = "Init"
    /\ node_ret = "Ok"

NodeNext ==
    \/ \E f \in BOOLEAN : HandleBeginFormingGenesisSection(f)
    \/ \E e \in Elders : HandleReceiveGenesisProposal(e)
    \/ \E e \in Elders, ok \in BOOLEAN : HandleReceiveGenesisAccumulation(e, ok)
    \/ \E ok \in BOOLEAN : HandleLevelUp(ok)
    \/ \E ok \in BOOLEAN : HandleLevelDown(ok)
    \/ \E c \in Capabilities, ok \in BOOLEAN : HandleCapabilityDuty(c, ok)
    \/ HandlePlainDuty

(***************************************************************************)
(* Adult data duties (duties/adult/data/mod.rs). ChunkStorage, Reading and *)
(* Writing are not among the source files.                                 *)
(***************************************************************************)
ChunkAddrs == {"A", "B"}

\* Option<Signature> / Option<(Request, Signature)>: absent, or a signature
\* that is or is not the section's over the serialized request
Signatures == {"None", "Valid", "Invalid"}

\* validate_section_signature: public_key()?.verify(signature, serialise(request))
ValidateSectionSignature(key_known, sig) == key_known /\ sig = "Valid"

ChunkReply(response, address) ==
    [kind |-> "RespondToOurDataHandlers", response |-> response, address |-> address]

\* ChunkStorage::store: it is built without the routing node and is handed no
\* key, so it cannot check the signature it is given; QuotaExceeded and
\* AlreadyExists are answered; otherwise the chunk is written.
ChunkStorageStore(storage, address, has_space) ==
    IF ~has_space
    THEN [storage |-> storage, ret |-> ChunkReply("MutationErrQuotaExceeded", address)]
    ELSE IF address \in storage
    THEN [storage |-> storage, ret |-> ChunkReply("MutationErrAlreadyExists", address)]
    ELSE [storage |-> storage \cup {address}, ret |-> ChunkReply("MutationOk", address)]

\* Writing::get_result: it is handed the section public key and requires the
\* section signature; New stores, DeletePrivate removes.
WritingGetResult(storage, write, address, key_known, sig, has_space) ==
    IF ~ValidateSectionSignature(key_known, sig)
    THEN [storage |-> storage, ret |-> NoAction]
    ELSE IF write = "New"
    THEN ChunkStorageStore(storage, address, has_space)
    ELSE IF address \in storage
    THEN [storage |-> storage \ {address}, ret |-> ChunkReply("MutationOk", address)]
    ELSE [storage |-> storage, ret |-> ChunkReply("MutationErrNoSuchData", address)]

\* Reading::get_result: the section signature is required.
ReadingGetResult(storage, address, key_known, sig) ==
    IF ~ValidateSectionSignature(key_known, sig) THEN NoAction
    ELSE IF address \in storage THEN ChunkReply("GetIDataOk", address)
    ELSE ChunkReply("GetIDataErrNoSuchData", address)

AdStep(msg, result) ==
    /\ ad_in' = msg
    /\ chunk_storage' = result.storage
    /\ ad_ret' = result.ret
    /\ UNCHANGED notAdVars

AdDropped == [storage |-> chunk_storage, ret |-> NoAction]

\* Data::handle_request
AdultHandleRequest(msg) ==
    CASE msg.what = "Read" ->
           [storage |-> chunk_storage,
            ret |-> ReadingGetResult(chunk_storage, msg.address, msg.key_known, msg.sig)]
      [] msg.what \in {"New", "DeletePrivate"} ->
           WritingGetResult(chunk_storage, msg.what, msg.address, msg.key_known,
                            msg.sig, msg.has_space)
      [] OTHER -> AdDropped

\* The proof of a response is checked for a requester that is not a node.
ProofRejected(msg) ==
    msg.requester # "Node" /\ ~ValidateSectionSignature(msg.key_known, msg.sig)

\* Data::handle_response
AdultHandleResponseProofless(msg) ==
    IF msg.requester = "Node" /\ msg.what = "GetIDataOk"
    THEN ChunkStorageStore(chunk_storage, msg.address, msg.has_space)
    ELSE AdDropped

AdultHandleResponse(msg) ==
    IF msg.sig = "None" THEN AdDropped
    ELSE IF ProofRejected(msg) THEN AdDropped
    ELSE IF msg.what \in {"GetIDataOk", "GetIDataErr"}
    THEN IF msg.requester = "Node" /\ msg.what = "GetIDataOk"
         THEN ChunkStorageStore(chunk_storage, msg.address, msg.has_space)
         ELSE AdDropped
    ELSE AdDropped

\* Data::receive_msg
ReceiveMsg(msg) ==
    AdStep(msg, CASE msg.kind = "Request" -> AdultHandleRequest(msg)
                  [] msg.kind = "Response" -> AdultHandleResponse(msg)
                  [] OTHER -> AdDropped)

AdRequests == {"Read", "New", "DeletePrivate", "Client"}
AdResponses == {"GetIDataOk", "GetIDataErr", "MutationOk"}

AdMsgs ==
    [kind : {"Request"}, what : AdRequests, requester : RequesterKinds,
     address : ChunkAddrs, sig : Signatures, key_known : BOOLEAN, has_space : BOOLEAN]
    \cup
    [kind : {"Response"}, what : AdResponses, requester : RequesterKinds,
     address : ChunkAddrs, sig : Signatures, key_known : BOOLEAN, has_space : BOOLEAN]
    \cup
    [kind : {"Duplicate"}, what : {"Duplicate"}, requester : {"Node"},
     address : ChunkAddrs, sig : {"None"}, key_known : {TRUE}, has_space : {TRUE}]

AdNoMsg ==
    [kind |-> "Init", what |-> "Init", requester |-> "Node", address |-> "A",
     sig |-> "None", key_known |-> TRUE, has_space |-> TRUE]

AdInit ==
    /\ chunk_storage = {}
    /\ ad_in = AdNoMsg
    /\ ad_ret = NoAction

AdIdle ==
    /\ chunk_storage = {}
    /\ ad_in = AdNoMsg
    /\ ad_ret = NoAction

AdNext == \E msg \in AdMsgs : ReceiveMsg(msg)

(***************************************************************************)
(* TransferStore as a component: try_insert, crash and reopen              *)
(***************************************************************************)
StoreEvents ==
    {[type |-> "TransferPropagated", id |-> "k1", amount |-> 1],
     [type |-> "TransferPropagated", id |-> "k2", amount |-> 2]}

\* utils::new_auto_dump_db: the db dumps itself to its file on every set, and
\* is loaded from that file when it exists.
DumpNever(disk, db) == disk

DumpOnSet(disk, db) == db

LoadDb(disk) == disk

\* TransferStore::try_insert
StoreTryInsert(event, disk_ok) ==
    LET r == TryInsert(ts_db, event, disk_ok) IN
    /\ ts_left > 0
    /\ ts_left' = ts_left - 1
    /\ ts_op' = "try_insert"
    /\ ts_ret' = [ok |-> r.ok, err |-> r.err]
    /\ ts_db' = r.db
    /\ ts_disk' = IF r.ok THEN DumpOnSet(ts_disk, r.db) ELSE ts_disk
    /\ ts_log' = IF r.ok THEN Append(ts_log, event) ELSE ts_log
    /\ UNCHANGED notTsVars

\* The process dies and TransferStore::new opens the same wallet id again.
StoreRestart ==
    /\ ts_op' = "restart"
    /\ ts_ret' = [ok |-> TRUE, err |-> ""]
    /\ ts_db' = LoadDb(ts_disk)
    /\ UNCHANGED <<ts_disk, ts_log, ts_left>>
    /\ UNCHANGED notTsVars

TsNext ==
    \/ \E e \in StoreEvents, ok \in BOOLEAN : StoreTryInsert(e, ok)
    \/ StoreRestart

\* TransferStore::new on a fresh directory
TsInit ==
    /\ ts_db = {}
    /\ ts_disk = {}
    /\ ts_log = <<>>
    /\ ts_left = MaxEvents
    /\ ts_op = "new"
    /\ ts_ret = [ok |-> TRUE, err |-> ""]

TsIdle ==
    /\ ts_db = {}
    /\ ts_disk = {}
    /\ ts_log = <<>>
    /\ ts_left = 0
    /\ ts_op = "new"
    /\ ts_ret = [ok |-> TRUE, err |-> ""]

\* The db files TransferStore::new may find: any entries under numeric keys.
OpenedKeys == {UsizeToString(0), UsizeToString(1), UsizeToString(2)}

OpenedDbs ==
    {db \in SUBSET (OpenedKeys \X StoreEvents) :
        \A e, f \in db : e[1] = f[1] => e = f}

\* TransferStore::new on a directory that holds a db file
TsInitOpened ==
    /\ ts_disk \in OpenedDbs
    /\ ts_db = LoadDb(ts_disk)
    /\ ts_log = GetAll(ts_db)
    /\ ts_left = MaxOpenedInserts
    /\ ts_op = "new"
    /\ ts_ret = [ok |-> TRUE, err |-> ""]

(***************************************************************************)
(* The replica mutex: process_payment as a task that takes the lock for    *)
(* each replica call, beside a second payment and Transfers                *)
(***************************************************************************)
PayTasks == {"p1", "p2"}

\* The credit Transfers works on: a transfer that is not a data payment.
TransfersCredit == "t1"

RpPayment(id) == [id |-> id, to |-> "section", amount |-> 1, sig_valid |-> TRUE]

RpStep(task, call) ==
    /\ rp_last' = [task |-> task, call |-> call]
    /\ UNCHANGED notRpVars

\* process_payment is called with a Cmd::Data message.
RpBegin(t, id) ==
    /\ rp_pc[t] = "idle"
    /\ rp_pc' = [rp_pc EXCEPT ![t] = "start"]
    /\ rp_credit' = [rp_credit EXCEPT ![t] = id]
    /\ RpStep(t, "process_payment")
    /\ UNCHANGED <<rp_lock, rp_db>>

\* section_wallet_id(): replica.lock().await.replicas_pk_set(), the guard
\* dropped when the match ends
RpSectionWalletId(t) ==
    /\ rp_pc[t] = "start"
    /\ rp_lock = "free"
    /\ rp_pc' = [rp_pc EXCEPT ![t] = "checked"]
    /\ RpStep(t, "replicas_pk_set")
    /\ UNCHANGED <<rp_lock, rp_credit, rp_db>>

\* receive_propagated is called in the Ok arm of the registration match.
PropagationMayStartEarly(pc) == pc \in {"checked", "registered"}

PropagationMayStart(pc) == pc = "registered"

\* replica.lock().await.register(&payment)
RpRegister(t, disk_ok) ==
    LET r == Register(rp_db, RpPayment(rp_credit[t]), disk_ok) IN
    /\ rp_pc[t] = "checked"
    /\ rp_lock = "free"
    /\ rp_db' = r.db
    /\ rp_pc' = [rp_pc EXCEPT ![t] = IF r.ok THEN "registered" ELSE "replying"]
    /\ RpStep(t, "register")
    /\ UNCHANGED <<rp_lock, rp_credit>>

\* replica.lock().await.receive_propagated(&payment)
RpReceivePropagated(t, disk_ok) ==
    LET r == ReceivePropagated(rp_db, RpPayment(rp_credit[t]), disk_ok) IN
    /\ PropagationMayStart(rp_pc[t])
    /\ rp_lock = "free"
    /\ rp_db' = r.db
    /\ rp_pc' = [rp_pc EXCEPT ![t] = IF r.ok THEN "propagated" ELSE "replying"]
    /\ RpStep(t, "receive_propagated")
    /\ UNCHANGED <<rp_lock, rp_credit>>

\* replica.lock().await.get_store_cost(num_bytes).await?: the guard lives to
\* the end of the statement, over the await of get_store_cost. The future
\* may be ready at once or suspend the task.
RpStoreCostBegin(t, suspends) ==
    /\ rp_pc[t] = "propagated"
    /\ rp_lock = "free"
    /\ rp_lock' = IF suspends THEN t ELSE "free"
    /\ rp_pc' = [rp_pc EXCEPT ![t] = IF suspends THEN "costing" ELSE "replying"]
    /\ RpStep(t, "get_store_cost")
    /\ UNCHANGED <<rp_credit, rp_db>>

\* get_store_cost is ready; the statement ends and the guard is dropped.
RpStoreCostEnd(t) ==
    /\ rp_pc[t] = "costing"
    /\ rp_lock = t
    /\ rp_lock' = "free"
    /\ rp_pc' = [rp_pc EXCEPT ![t] = "replying"]
    /\ RpStep(t, "get_store_cost ready")
    /\ UNCHANGED <<rp_credit, rp_db>>

\* wrapping.error(..).await or wrapping.forward(msg).await, then return
RpReply(t) ==
    /\ rp_pc[t] = "replying"
    /\ rp_pc' = [rp_pc EXCEPT ![t] = "idle"]
    /\ RpStep(t, "reply")
    /\ UNCHANGED <<rp_lock, rp_credit, rp_db>>

\* Transfers takes the same lock for a step on a transfer of its own.
RpTransfersStep(call, disk_ok) ==
    LET r == IF call = "register"
             THEN Register(rp_db, RpPayment(TransfersCredit), disk_ok)
             ELSE ReceivePropagated(rp_db, RpPayment(TransfersCredit), disk_ok) IN
    /\ rp_lock = "free"
    /\ rp_db' = r.db
    /\ RpStep("transfers", call)
    /\ UNCHANGED <<rp_lock, rp_pc, rp_credit>>

RpInit ==
    /\ rp_lock = "free"
    /\ rp_pc = [t \in PayTasks |-> "idle"]
    /\ rp_credit = [t \in PayTasks |-> "k1"]
    /\ rp_db = {}
    /\ rp_last = [task |-> "none", call |-> "none"]

RpIdle ==
    /\ rp_lock = "free"
    /\ rp_pc = [t \in PayTasks |-> "idle"]
    /\ rp_credit = [t \in PayTasks |-> "k1"]
    /\ rp_db = {}
    /\ rp_last = [task |-> "none", call |-> "none"]

RpNext ==
    \/ \E t \in PayTasks, id \in CreditIds : RpBegin(t, id)
    \/ \E t \in PayTasks : RpSectionWalletId(t)
    \/ \E t \in PayTasks, ok \in BOOLEAN : RpRegister(t, ok)
    \/ \E t \in PayTasks, ok \in BOOLEAN : RpReceivePropagated(t, ok)
    \/ \E t \in PayTasks, suspends \in BOOLEAN : RpStoreCostBegin(t, suspends)
    \/ \E t \in PayTasks : RpStoreCostEnd(t)
    \/ \E t \in PayTasks : RpReply(t)
    \/ \E c \in {"register", "receive_propagated"}, ok \in BOOLEAN : RpTransfersStep(c, ok)

DhInit ==
    /\ idata_handler \in {NoHandler, [present |-> TRUE, ops |-> {}, index |-> {}]}
    /\ idata_holder = {}
    /\ idata_duplicate_op = {}
    /\ dh_in = [kind |-> "Init", src |-> "Node", requester |-> "Node", what |-> "Init",
                message_id |-> 0]
    /\ dh_ret = NoAction
    /\ gets_sent = [m \in MsgIds |-> 0]
    /\ dup_stored = [m \in MsgIds |-> 0]
    /\ orders_rcvd = 0
    /\ dup_outstanding = {}

(***************************************************************************)
(* check_data: the test's check of the copies the nodes hold               *)
(***************************************************************************)
\* The names of the test nodes, the closest to the checked data's name first
TestNodes == <<"t1", "t2", "t3", "t4", "t5">>

TestNodeNames == {TestNodes[i] : i \in 1..Len(TestNodes)}

Versions == {0, 1}

\* routing::MIN_GROUP_SIZE, scaled to the five nodes of the model
MIN_GROUP_SIZE == 2

\* The order of XorName::cmp_distance from the data's name
Distance(name) == CHOOSE i \in 1..Len(TestNodes) : TestNodes[i] = name

\* sorted_by(|left, right| data_id.name().cmp_distance(left, right))
RECURSIVE SortedByDistance(_)
SortedByDistance(names) ==
    IF names = {} THEN <<>>
    ELSE LET first == CHOOSE n \in names : \A o \in names : Distance(n) <= Distance(o)
         IN <<first>> \o SortedByDistance(names \ {first})

\* Vec::truncate
Truncate(v, len) == IF len < Len(v) THEN SubSeq(v, 1, len) ELSE v

\* The (id, version) under which the data is looked up: Immutable is version 0.
DataVersion(data) == IF data.kind = "Immutable" THEN 0 ELSE data.version

\* data_holders_map.get(&(data_id, data_version)): the nodes whose
\* get_stored_names has the data in that version
DataHolders(stored, data) == {n \in TestNodeNames : DataVersion(data) \in stored[n]}

\* data_holders.truncate(expected_num_of_holders)
TruncateHoldersNot(holders, len) == holders

TruncateHolders(holders, len) == Truncate(holders, len)

\* check_data for one item of all_data: "passed", or "panicked" on a failed
\* assert! or on unreachable!
CheckData(stored, data, close_group_len) ==
    LET data_holders == SortedByDistance(DataHolders(stored, data))
        expected_data_holders == SortedByDistance(TestNodeNames)
        expected_num_of_holders == close_group_len
    IN IF data.kind \notin {"Immutable", "Structured"} THEN "panicked"
       ELSE IF ~(expected_num_of_holders >= MIN_GROUP_SIZE) THEN "panicked"
       ELSE IF Truncate(expected_data_holders, expected_num_of_holders)
                  = TruncateHolders(data_holders, expected_num_of_holders)
       THEN "passed"
       ELSE "panicked"

CheckedData ==
    {[kind |-> "Immutable", version |-> 0], [kind |-> "Structured", version |-> 0],
     [kind |-> "Structured", version |-> 1], [kind |-> "Plain", version |-> 0]}

\* A node stores the data in one version or not at all.
StoredNames == [TestNodeNames -> {{}} \cup {{v} : v \in Versions}]

\* close_group_len of the node closest to the data
CloseGroupLens == 1..(Len(TestNodes) - 1)

CheckDataStep ==
    /\ cd_result = "none"
    /\ cd_result' = CheckData(cd_stored, cd_data, cd_close_group_len)
    /\ UNCHANGED <<cd_stored, cd_data, cd_close_group_len>>
    /\ UNCHANGED notCdVars

CdInit ==
    /\ cd_stored \in StoredNames
    /\ cd_data \in CheckedData
    /\ cd_close_group_len \in CloseGroupLens
    /\ cd_result = "none"

CdIdle ==
    /\ cd_stored = [n \in TestNodeNames |-> {}]
    /\ cd_data = [kind |-> "Immutable", version |-> 0]
    /\ cd_close_group_len = MIN_GROUP_SIZE
    /\ cd_result = "none"

CdNext == CheckDataStep

(***************************************************************************)
(* A section: the Elder chunk handler and the Adults that hold address A.  *)
(* Each Adult runs DataHandler as a holder; the Elder runs it with its     *)
(* chunk handler. The chunk of A was put and acknowledged before.          *)
(***************************************************************************)
\* The Adults, the closest to A first
SecAdults == <<"a1", "a2", "a3", "a4", "a5">>

SecAdultNames == {SecAdults[i] : i \in 1..Len(SecAdults)}

\* The replication factor k of the spec
ReplicationFactor == 3

\* Members lost in one run
MaxLost == 2

SecDistance(name) == CHOOSE i \in 1..Len(SecAdults) : SecAdults[i] = name

SecClosest(names) ==
    CHOOSE n \in names : \A o \in names : SecDistance(n) <= SecDistance(o)

SecStep(handler, node) == sec_last' = [handler |-> handler, node |-> node]

\* ---- IDataHandler::trigger_data_copy_process (not among the source files):
\* the lost node leaves the holder index, and the closest live Adult that is
\* not a holder is ordered to copy the chunk from the remaining holders.
HandlerRemoveHolder(index, node) == index \ {node}

HandlerDuplicateOrders(index, live, node, message_id) ==
    LET holders == HandlerRemoveHolder(index, node)
        candidates == live \ holders
    IN IF node \notin index \/ candidates = {} THEN {}
       ELSE {[rpc |-> "Duplicate", to |-> SecClosest(candidates), from |-> "elder",
              holders |-> holders, result |-> "None", message_id |-> message_id]}

\* ---- IDataHandler::update_idata_holders (not among the source files): the
\* sender of a successful copy enters the holder index.
HandlerInsertHolder(index, sender, result) ==
    IF result = "Ok" THEN index \cup {sender} ELSE index

\* A member leaves the section and the Elder runs trigger_chunk_duplication;
\* what was in flight to the lost node is gone with it.
SecTriggerChunkDuplication(node) ==
    /\ Len(sec_removed) < MaxLost
    /\ node \in sec_live
    /\ sec_live' = sec_live \ {node}
    /\ sec_removed' = Append(sec_removed, [node |-> node, held |-> node \in sec_index])
    /\ sec_index' = HandlerRemoveHolder(sec_index, node)
    /\ sec_net' = {msg \in sec_net : msg.to # node}
                     \cup HandlerDuplicateOrders(sec_index, sec_live \ {node}, node,
                                                Len(sec_removed) + 1)
    /\ sec_disk' = sec_disk \ {node}
    /\ SecStep("trigger_chunk_duplication", "elder")
    /\ UNCHANGED sec_duplicate_op
    /\ UNCHANGED notSecVars

\* handle_duplicate_request at the Adult the order is for
SecHandleDuplicateRequest(msg) ==
    /\ msg \in sec_net
    /\ msg.rpc = "Duplicate"
    /\ IF msg.message_id \notin sec_duplicate_op[msg.to]
       THEN /\ sec_duplicate_op' =
                  [sec_duplicate_op EXCEPT ![msg.to] = @ \cup {msg.message_id}]
            /\ sec_net' = (sec_net \ {msg})
                  \cup {[rpc |-> "Get", to |-> h, from |-> msg.to, holders |-> {},
                         result |-> "None", message_id |-> msg.message_id] :
                           h \in msg.holders \cap sec_live}
       ELSE /\ sec_duplicate_op' = sec_duplicate_op
            /\ sec_net' = sec_net \ {msg}
    /\ SecStep("handle_duplicate_request", msg.to)
    /\ UNCHANGED <<sec_live, sec_index, sec_disk, sec_removed>>
    /\ UNCHANGED notSecVars

\* handle_request at a holder: Get with a node as requester is served from the
\* local chunk holder, which answers the requester.
SecHandleGet(msg) ==
    /\ msg \in sec_net
    /\ msg.rpc = "Get"
    /\ sec_net' = (sec_net \ {msg})
          \cup {[rpc |-> "Response", to |-> msg.from, from |-> msg.to, holders |-> {},
                 result |-> IF msg.to \in sec_disk THEN "Ok" ELSE "Err",
                 message_id |-> msg.message_id]}
    /\ SecStep("handle_request", msg.to)
    /\ UNCHANGED <<sec_live, sec_index, sec_disk, sec_duplicate_op, sec_removed>>
    /\ UNCHANGED notSecVars

\* Whether a GetIData response belongs to a duplication in progress here.
SecIsDuplicationResponseNever(node, message_id) == FALSE

SecIsDuplicationResponse(node, message_id) == message_id \in sec_duplicate_op[node]

\* handle_response at the new holder: GetIData(result)
SecHandleResponse(msg) ==
    /\ msg \in sec_net
    /\ msg.rpc = "Response"
    /\ IF SecIsDuplicationResponse(msg.to, msg.message_id)
       THEN IF msg.result = "Ok"
            THEN /\ sec_duplicate_op' =
                       [sec_duplicate_op EXCEPT ![msg.to] = @ \ {msg.message_id}]
                 /\ sec_disk' = sec_disk \cup {msg.to}
                 /\ sec_net' = (sec_net \ {msg})
                       \cup {[rpc |-> "DuplicationComplete", to |-> "elder",
                              from |-> msg.to, holders |-> {},
                              result |-> IF msg.to \in sec_disk THEN "Err" ELSE "Ok",
                              message_id |-> msg.message_id]}
            ELSE /\ sec_net' = sec_net \ {msg}
                 /\ UNCHANGED <<sec_duplicate_op, sec_disk>>
       ELSE \* handle_idata_request: "Not applicable to Adults"
            /\ sec_net' = sec_net \ {msg}
            /\ UNCHANGED <<sec_duplicate_op, sec_disk>>
    /\ SecStep("handle_response", msg.to)
    /\ UNCHANGED <<sec_live, sec_index, sec_removed>>
    /\ UNCHANGED notSecVars

\* complete_duplication at the Elder: Mutation(result) updates the holders.
SecCompleteDuplication(msg) ==
    /\ msg \in sec_net
    /\ msg.rpc = "DuplicationComplete"
    /\ sec_index' = HandlerInsertHolder(sec_index, msg.from, msg.result)
    /\ sec_net' = sec_net \ {msg}
    /\ SecStep("complete_duplication", "elder")
    /\ UNCHANGED <<sec_live, sec_disk, sec_duplicate_op, sec_removed>>
    /\ UNCHANGED notSecVars

\* One message in flight is delivered to its handler.
SecDeliver ==
    \E msg \in sec_net :
       \/ SecHandleDuplicateRequest(msg)
       \/ SecHandleGet(msg)
       \/ SecHandleResponse(msg)
       \/ SecCompleteDuplication(msg)

\* The section after the put of A was acknowledged by the k closest Adults
SecInit ==
    /\ sec_live = SecAdultNames
    /\ sec_index = {SecAdults[i] : i \in 1..ReplicationFactor}
    /\ sec_disk = {SecAdults[i] : i \in 1..ReplicationFactor}
    /\ sec_duplicate_op = [a \in SecAdultNames |-> {}]
    /\ sec_net = {}
    /\ sec_removed = <<>>
    /\ sec_last = [handler |-> "none", node |-> "none"]

SecIdle ==
    /\ sec_live = {}
    /\ sec_index = {}
    /\ sec_disk = {}
    /\ sec_duplicate_op = [a \in SecAdultNames |-> {}]
    /\ sec_net = {}
    /\ sec_removed = <<>>
    /\ sec_last = [handler |-> "none", node |-> "none"]

SecNext ==
    \/ \E node \in SecAdultNames : SecTriggerChunkDuplication(node)
    \/ SecDeliver

(***************************************************************************)
(* nodes_and_clients (mock_crust_detail/poll.rs). TestNode::poll and       *)
(* TestClient::poll are not among the source files: a poll handles every   *)
(* event in the queue of its node or client and returns how many it        *)
(* handled; handling events may put new events in the queues of the others.*)
(***************************************************************************)
\* Events a queue may hold when nodes_and_clients is called
MaxQueued == 1
\* Events the nodes and clients produce in all before they stop producing
MaxProduced == 2

\* The nodes, then the clients: the order of the two for loops
Pollers == <<"n1", "n2", "c1">>
PollerNames == {Pollers[i] : i \in 1..Len(Pollers)}

RECURSIVE EventsIn(_, _)
EventsIn(d, names) ==
    IF names = {} THEN 0
    ELSE LET p == CHOOSE x \in names : TRUE IN d[p] + EventsIn(d, names \ {p})

\* What `who` may send to the others while it handles `handled` events, with
\* `left` events still to be produced
Deliveries(who, handled, left) ==
    {d \in [PollerNames -> 0..left] :
        /\ d[who] = 0
        /\ EventsIn(d, PollerNames) <= (IF handled = 0 THEN 0 ELSE left)}

\* if prev_count == count { break; }
RoundWasIdleAlways(prev_count, count) == TRUE

RoundWasIdle(prev_count, count) == prev_count = count

\* let prev_count = count;
PlLoopStart ==
    /\ pl_pc = "loop"
    /\ pl_prev_count' = pl_count
    /\ pl_i' = 1
    /\ pl_round' = 0
    /\ pl_pc' = "poll"
    /\ UNCHANGED <<pl_queue, pl_count, pl_left, pl_handled, pl_result>>
    /\ UNCHANGED notPlVars

\* count += node.poll(); count += client.poll();
PlPoll(d) ==
    LET who == Pollers[pl_i]
        handled == pl_queue[who]
    IN  /\ pl_pc = "poll"
        /\ d \in Deliveries(who, handled, pl_left)
        /\ pl_count' = pl_count + handled
        /\ pl_queue' = [p \in PollerNames |->
                           IF p = who THEN 0 ELSE pl_queue[p] + d[p]]
        /\ pl_left' = pl_left - EventsIn(d, PollerNames)
        /\ pl_handled' = pl_handled + handled
        /\ pl_round' = pl_round + handled
        /\ IF pl_i < Len(Pollers)
           THEN pl_i' = pl_i + 1 /\ UNCHANGED pl_pc
           ELSE pl_pc' = "check" /\ UNCHANGED pl_i
        /\ UNCHANGED <<pl_prev_count, pl_result>>
        /\ UNCHANGED notPlVars

\* if prev_count == count { break; } ... count
PlCheck ==
    /\ pl_pc = "check"
    /\ IF RoundWasIdle(pl_prev_count, pl_count)
       THEN pl_pc' = "returned" /\ pl_result' = pl_count
       ELSE pl_pc' = "loop" /\ UNCHANGED pl_result
    /\ UNCHANGED <<pl_queue, pl_count, pl_prev_count, pl_i, pl_left, pl_handled,
                   pl_round>>
    /\ UNCHANGED notPlVars

PlInit ==
    /\ pl_queue \in [PollerNames -> 0..MaxQueued]
    /\ pl_count = 0
    /\ pl_prev_count = 0
    /\ pl_pc = "loop"
    /\ pl_i = 1
    /\ pl_left \in 0..MaxProduced
    /\ pl_handled = 0
    /\ pl_round = 0
    /\ pl_result = -1

PlIdle ==
    /\ pl_queue = [p \in PollerNames |-> 0]
    /\ pl_count = 0
    /\ pl_prev_count = 0
    /\ pl_pc = "loop"
    /\ pl_i = 1
    /\ pl_left = 0
    /\ pl_handled = 0
    /\ pl_round = 0
    /\ pl_result = -1

PlNext ==
    \/ PlLoopStart
    \/ \E d \in [PollerNames -> 0..MaxProduced] : PlPoll(d)
    \/ PlCheck

\* The state the other components rest in while one component is checked
PayIdle ==
    /\ replicas_pk_set = "section"
    /\ transfer_db = {}
    /\ pay_in = NoMsg
    /\ pay_calls = <<>>
    /\ pay_ret = NoAction

DhIdle ==
    /\ idata_handler = NoHandler
    /\ idata_holder = {}
    /\ idata_duplicate_op = {}
    /\ dh_in = [kind |-> "Init", src |-> "Node", requester |-> "Node", what |-> "Init",
                message_id |-> 0]
    /\ dh_ret = NoAction
    /\ gets_sent = [m \in MsgIds |-> 0]
    /\ dup_stored = [m \in MsgIds |-> 0]
    /\ orders_rcvd = 0
    /\ dup_outstanding = {}

InitDataHandler == DhInit /\ PayIdle /\ NodeIdle /\ AdIdle /\ TsIdle /\ RpIdle /\ CdIdle /\ SecIdle /\ PlIdle

InitPayments == PayInit /\ DhIdle /\ NodeIdle /\ AdIdle /\ TsIdle /\ RpIdle /\ CdIdle /\ SecIdle /\ PlIdle

InitNode == NodeInit /\ DhIdle /\ PayIdle /\ AdIdle /\ TsIdle /\ RpIdle /\ CdIdle /\ SecIdle /\ PlIdle

InitAdult == AdInit /\ DhIdle /\ PayIdle /\ NodeIdle /\ TsIdle /\ RpIdle /\ CdIdle /\ SecIdle /\ PlIdle

Responses == {"MutationOk", "MutationErr", "GetIDataOk", "GetIDataErr", "GetMData"}
Requests == {"Put", "Get", "DeleteUnpub", "MData", "AData", "Coins"}

\* The holder's disk (space left, ownership) matters to the messages that
\* write to it; the requester kind is looked at for Get only.
HolderOutcomes(what) ==
    IF what \in {"Put", "DeleteUnpub", "GetIDataOk"} THEN BOOLEAN ELSE {TRUE}

RequestersOf(what) == IF what = "Get" THEN RequesterKinds ELSE {"Client"}

DhNext ==
    \/ \E a \in Addrs, h \in HolderSets, m \in MsgIds : HandleDuplicateRequest(a, h, m)
    \/ \E s \in SrcKinds, r \in Responses, a \in Addrs, m \in MsgIds :
          \E f \in HolderOutcomes(r) : HandleResponse(s, r, a, f, m)
    \/ \E s \in SrcKinds, r \in Requests, a \in Addrs, m \in MsgIds :
          \E q \in RequestersOf(r), f \in HolderOutcomes(r) :
             HandleRequest(s, q, r, a, f, m)
    \/ \E s \in SrcKinds, r \in {"MutationOk", "MutationErr", "GetIDataOk"}, m \in MsgIds :
          CompleteDuplication(s, r, m)
    \/ \E n \in Nodes : TriggerChunkDuplication(n)

SpecDataHandler == InitDataHandler /\ [][DhNext]_vars

\* Every Get that was sent is answered, by the chunk or by an error, and every
\* DuplicationComplete that was sent is delivered.
DhFairness ==
    \A m \in MsgIds :
       /\ WF_vars(\E s \in SrcKinds, r \in {"GetIDataOk", "GetIDataErr"}, a \in Addrs :
                     \E f \in HolderOutcomes(r) : HandleResponse(s, r, a, f, m))
       /\ WF_vars(\E s \in SrcKinds, r \in {"MutationOk", "MutationErr"} :
                     CompleteDuplication(s, r, m))

SpecDataHandlerFair == InitDataHandler /\ [][DhNext]_vars /\ DhFairness

SpecPayments == InitPayments /\ [][PayNext]_vars

SpecNode == InitNode /\ [][NodeNext]_vars

SpecAdult == InitAdult /\ [][AdNext]_vars

InitStore == TsInit /\ DhIdle /\ PayIdle /\ NodeIdle /\ AdIdle /\ RpIdle /\ CdIdle /\ SecIdle /\ PlIdle

InitStoreOpened == TsInitOpened /\ DhIdle /\ PayIdle /\ NodeIdle /\ AdIdle /\ RpIdle /\ CdIdle /\ SecIdle /\ PlIdle

SpecStore == InitStore /\ [][TsNext]_vars

SpecStoreOpened == InitStoreOpened /\ [][TsNext]_vars

InitCheckData ==
    CdInit /\ DhIdle /\ PayIdle /\ NodeIdle /\ AdIdle /\ TsIdle /\ RpIdle /\ SecIdle /\ PlIdle

SpecCheckData == InitCheckData /\ [][CdNext]_vars

InitSection ==
    SecInit /\ DhIdle /\ PayIdle /\ NodeIdle /\ AdIdle /\ TsIdle /\ RpIdle /\ CdIdle /\ PlIdle

\* Every message in flight to a live member is delivered.
SpecSection == InitSection /\ [][SecNext]_vars /\ WF_vars(SecDeliver)

InitPoll ==
    PlInit /\ DhIdle /\ PayIdle /\ NodeIdle /\ AdIdle /\ TsIdle /\ RpIdle /\ CdIdle /\ SecIdle

\* nodes_and_clients is one sequential loop: it goes on while it can.
SpecPoll == InitPoll /\ [][PlNext]_vars /\ WF_vars(PlNext)

InitReplicaLock == RpInit /\ DhIdle /\ PayIdle /\ NodeIdle /\ AdIdle /\ TsIdle /\ CdIdle /\ SecIdle /\ PlIdle

SpecReplicaLock == InitReplicaLock /\ [][RpNext]_vars

(***************************************************************************)
(* Claims about the duplication dedup set                                  *)
(***************************************************************************)
InOp(m) == IF m \in idata_duplicate_op THEN 1 ELSE 0

\* C1 as stated: for every message id m, over any sequence of inbound
\* messages, the node emits at most one duplication Get with id m.
C1_AtMostOneGetEver == \A m \in MsgIds : gets_sent[m] <= 1

\* C1 amended: a Get with id m is emitted only by an order that finds m
\* absent from idata_duplicate_op, and m leaves the set only when an Ok
\* GetIData response with id m is stored; so the Gets emitted with id m are
\* the stored Ok responses with id m, plus one while m is in the set.
C1_OneGetPerCompletion ==
    \A m \in MsgIds : gets_sent[m] = dup_stored[m] + InOp(m)

\* Two orders delivered, both with id 1, and one Get emitted.
C1_RedeliveryDeduped ==
    /\ orders_rcvd = 2
    /\ gets_sent[1] = 1
    /\ gets_sent[2] = 0
    /\ dup_stored[1] = 0

\* A step that handles a DuplicateOrder
IsOrderStep == orders_rcvd' = orders_rcvd + 1

DhStateUnchanged ==
    UNCHANGED <<idata_handler, idata_holder, idata_duplicate_op, gets_sent, dup_stored>>

\* The order handled is redundant: its id was already in the dedup set.
RedundantOrder ==
    \E m \in idata_duplicate_op : dup_outstanding' = dup_outstanding \cup {m}

\* C2: while a duplication Get for m is outstanding, m is in
\* idata_duplicate_op; an order whose id is in the set returns no action and
\* changes nothing, any other order inserts its id and emits its Get; so
\* as long as no Ok response was stored, each id has at most one Get.
C2_RedundantOrderIsNoOp ==
    /\ [](dup_outstanding \subseteq idata_duplicate_op)
    /\ [](\A m \in MsgIds : dup_stored[m] = 0 => gets_sent[m] <= 1)
    /\ [][IsOrderStep =>
            \/ /\ RedundantOrder
               /\ dh_ret' = NoAction
               /\ DhStateUnchanged
            \/ \E m \in MsgIds \ idata_duplicate_op :
                 /\ dup_outstanding' = dup_outstanding \cup {m}
                 /\ idata_duplicate_op' = idata_duplicate_op \cup {m}
                 /\ dh_ret'.kind = "SendMessage"
                 /\ dh_ret'.message_id = m
                 /\ gets_sent' = [gets_sent EXCEPT ![m] = @ + 1]]_vars

\* The same order delivered twice: one Get, and the second delivery
\* returned nothing.
C2_SecondDeliveryReturnedNothing ==
    /\ orders_rcvd = 2
    /\ gets_sent[1] = 1
    /\ gets_sent[2] = 0
    /\ dup_stored[1] = 0
    /\ 1 \in dup_outstanding
    /\ dh_in.kind = "Duplicate"
    /\ dh_ret = NoAction

(***************************************************************************)
(* Claims about Payments                                                   *)
(***************************************************************************)
Called(name) == \E i \in 1..Len(pay_calls) : pay_calls[i].call = name

CalledOk(name) ==
    \E i \in 1..Len(pay_calls) : pay_calls[i].call = name /\ pay_calls[i].result = "Ok"

CalledErr(name, err) ==
    \E i \in 1..Len(pay_calls) : pay_calls[i].call = name /\ pay_calls[i].result = err

ReplicaErrors == {"InvalidSignature", "PickleDb", "Logic"}

\* The store cost the last run obtained; -1 when it obtained none
CostObtained ==
    IF Called("get_store_cost") THEN pay_calls[Len(pay_calls)].cost ELSE -1

RecipientIsSection(msg) ==
    replicas_pk_set # "None" /\ msg.payment.to = replicas_pk_set

PaymentRecorded(db, id) == Recorded(db, Registered(id)) /\ Recorded(db, Propagated(id))

\* The last message was a data command whose payment cleared the replica
PaymentCleared ==
    /\ pay_in.kind = "CmdData"
    /\ RecipientIsSection(pay_in)
    /\ CalledOk("register")
    /\ CalledOk("receive_propagated")

\* C3: a data command is forwarded only if the recipient is the section
\* wallet key, register and receive_propagated succeeded (the payment is in
\* the wallet's log) and the amount is not below the store cost of the
\* command; and a payment of exactly the cost is forwarded.
C3_ForwardOnlyWhenPaid ==
    /\ pay_ret.kind = "Forward" =>
         /\ PaymentCleared
         /\ PaymentRecorded(transfer_db, pay_in.payment.id)
         /\ CostObtained = GetStoreCost(1, pay_in.num_bytes)
         /\ pay_in.payment.amount >= CostObtained
         /\ pay_ret = PayForward(pay_in)
    /\ (PaymentCleared /\ CostObtained = pay_in.payment.amount) =>
         pay_ret = PayForward(pay_in)

\* A payment of exactly the cost of a two-byte command was forwarded.
C3_ExactPaymentForwarded ==
    /\ pay_ret.kind = "Forward"
    /\ pay_in.num_bytes = 2
    /\ pay_in.payment.amount = 2
    /\ CostObtained = 2

\* C4: when the payment recipient is not this section's wallet key, or the
\* section key is unavailable, the run replies NoSuchRecipient to the
\* origin, calls neither register nor receive_propagated, appends no
\* replica event and forwards nothing.
C4_WrongRecipientRejected ==
    [][(pay_in'.kind = "CmdData" /\ ~RecipientIsSection(pay_in')) =>
          /\ pay_ret' = PayError("NoSuchRecipient", pay_in')
          /\ pay_ret'.to = pay_in'.origin
          /\ ~Called("register")'
          /\ ~Called("receive_propagated")'
          /\ ~Called("get_store_cost")'
          /\ transfer_db' = transfer_db]_vars

\* A payment to another section's key was rejected while the wallet's log
\* already held events.
C4_OtherSectionPaymentRejected ==
    /\ pay_in.kind = "CmdData"
    /\ replicas_pk_set = "section"
    /\ pay_in.payment.to = "other"
    /\ pay_in.payment.sig_valid
    /\ pay_ret.kind = "Error"
    /\ pay_ret.error = "NoSuchRecipient"
    /\ transfer_db # {}

\* C5: when a payment that cleared the replica is below the store cost, the
\* run replies InsufficientBalance to the origin and forwards nothing, the
\* payment's TransferRegistered and TransferPropagated events are in the
\* wallet's log, and no later step removes an event from the log.
C5_UnderpaymentForfeited ==
    /\ [](PaymentCleared /\ CostObtained > pay_in.payment.amount =>
            /\ pay_ret = PayError("InsufficientBalance", pay_in)
            /\ pay_ret.to = pay_in.origin
            /\ PaymentRecorded(transfer_db, pay_in.payment.id))
    /\ [][transfer_db \subseteq transfer_db']_vars

\* A payment of cost - 1 was answered InsufficientBalance.
C5_PaidOneBelowCost ==
    /\ PaymentCleared
    /\ CostObtained = 2
    /\ pay_in.payment.amount = 1
    /\ pay_ret.kind = "Error"
    /\ pay_ret.error = "InsufficientBalance"

\* C6: if register fails receive_propagated is not called; if either fails
\* the run sends the error it failed with to the origin and forwards
\* nothing.
C6_RegistrationFailureReported ==
    \A err \in ReplicaErrors :
        /\ CalledErr("register", err) =>
             /\ ~Called("receive_propagated")
             /\ ~Called("get_store_cost")
             /\ pay_ret = PayError(err, pay_in)
        /\ CalledErr("receive_propagated", err) =>
             /\ CalledOk("register")
             /\ ~Called("get_store_cost")
             /\ pay_ret = PayError(err, pay_in)

\* register succeeded and receive_propagated failed on the disk write.
C6_PropagationFailed ==
    /\ CalledOk("register")
    /\ CalledErr("receive_propagated", "PickleDb")
    /\ pay_ret.kind = "Error"
    /\ Recorded(transfer_db, Registered(pay_in.payment.id))
    /\ ~Recorded(transfer_db, Propagated(pay_in.payment.id))

\* C7 as stated, at Payments: every client Put that came with a correct
\* payment (right recipient, registered and propagated) has a reply under
\* way when the run ends: an error to the origin, or the command forwarded
\* to the data section that will answer it.
C7_PaidPutGetsReply ==
    PaymentCleared => pay_ret.kind \in {"Error", "Forward"}

C9_GenesisPathOrdered ==
    [][/\ StageRank(genesis_stage') - StageRank(genesis_stage) \in {0, 1}
       /\ (node_duty' = "BeginFormingGenesisSection" /\ genesis_stage' # genesis_stage
             => /\ genesis_stage.stage = "None"
                /\ chunks
                /\ ~meta_data)]_vars

\* C10: after LevelDown the node holds the chunk store and no meta data,
\* transfers or section funds, and nothing of the genesis state survives.
C10_LevelDownLeavesOnlyChunks ==
    (node_duty = "LevelDown" /\ node_ret = "Ok")
        => /\ chunks
           /\ ~meta_data
           /\ ~transfers
           /\ section_funds = "None"
           /\ genesis_stage = NoGenesis

RoleState == <<genesis_stage, chunks, meta_data, transfers, section_funds>>

RoleDuties == {"BeginFormingGenesisSection", "ReceiveGenesisProposal",
               "ReceiveGenesisAccumulation", "LevelUp", "LevelDown"}

\* C11: the role state (genesis_stage and the presence of chunks, meta_data,
\* transfers, section_funds) changes only on BeginFormingGenesisSection,
\* ReceiveGenesisProposal, ReceiveGenesisAccumulation, LevelUp and LevelDown;
\* every other duty leaves it unchanged.
C11_RoleChangesOnlyOnRoleDuties ==
    [][RoleState' # RoleState => node_duty' \in RoleDuties]_vars

\* C11 case: an Elder that completed genesis has handled a rewards duty.
C11_ElderHandledRewardsDuty ==
    /\ node_duty = "rewards"
    /\ node_ret = "Ok"
    /\ genesis_stage.stage = "Completed"
    /\ meta_data /\ transfers /\ chunks
    /\ section_funds = "Rewarding"

(***************************************************************************)
(* DataHandler: routing of IData requests                                  *)
(***************************************************************************)
IDataRequests == {"Put", "Get", "DeleteUnpub"}

IsIDataRequestStep == dh_in'.kind = "Request" /\ dh_in'.what \in IDataRequests

\* The step was answered by the local chunk holder / left the holder alone.
ServedByHolder == dh_ret'.kind = "RespondToSrc"

\* C12: an IData request (Put, Get, DeleteUnpub) from a section source is
\* handled by the node's own chunk holder and never by the Elder chunk
\* handler, whatever the role; a Put or DeleteUnpub from a non-section source
\* is never applied to the local chunk holder.
C12_SectionRequestsGoToHolder ==
    [][IsIDataRequestStep =>
         /\ (dh_in'.src = "Section" =>
               /\ ServedByHolder
               /\ idata_handler' = idata_handler)
         /\ (dh_in'.src # "Section" /\ dh_in'.what \in {"Put", "DeleteUnpub"} =>
               /\ ~ServedByHolder
               /\ idata_holder' = idata_holder)]_vars

\* C12 case: an Elder stored a chunk put by a section.
C12_ElderStoredSectionPut ==
    /\ idata_handler.present
    /\ dh_in.kind = "Request" /\ dh_in.src = "Section"
    /\ dh_in.requester = "Client" /\ dh_in.what = "Put"
    /\ dh_ret.kind = "RespondToSrc"
    /\ dh_ret.response = "MutationOk"
    /\ dh_ret.address \in idata_holder

\* C13: a Get is served from the local chunk holder exactly when its source
\* is a section or its requester is a node; a Get from a single-node source
\* with a client requester goes to the Elder chunk handler (a fan-out to the
\* holders, or nothing), never to local disk.
C13_GetServedLocallyIffSectionOrNode ==
    [][dh_in'.kind = "Request" /\ dh_in'.what = "Get" =>
         /\ ServedByHolder <=> (dh_in'.src = "Section" \/ dh_in'.requester = "Node")
         /\ idata_holder' = idata_holder
         /\ (dh_in'.src = "Node" /\ dh_in'.requester = "Client" =>
               /\ dh_ret'.kind \in {"SendToHolders", "None"}
               /\ idata_handler.ops \subseteq idata_handler'.ops
               /\ (dh_ret'.kind = "SendToHolders"
                     <=> idata_handler'.ops # idata_handler.ops))]_vars

\* C13 case: a Get from a single node with a node requester was served from
\* the chunk held locally.
C13_NodeGetServedLocally ==
    /\ dh_in.kind = "Request" /\ dh_in.src = "Node"
    /\ dh_in.requester = "Node" /\ dh_in.what = "Get"
    /\ dh_ret.kind = "RespondToSrc"
    /\ dh_ret.response = "GetIDataOk"

\* The data handler's own state (the counters of orders and Gets aside).
DhProgramState == <<idata_handler, idata_holder, idata_duplicate_op>>

Dropped == dh_ret' = NoAction /\ DhProgramState' = DhProgramState

\* Messages meant for an Elder: a client-originated IData request, an MData
\* or AData request, a Mutation response, a GetIData response that stores no
\* duplicate, a DuplicationComplete, a member-lost trigger.
ElderOnlyStep ==
    \/ /\ IsIDataRequestStep
       /\ dh_in'.src = "Node"
       /\ (dh_in'.what = "Get" => dh_in'.requester = "Client")
    \/ dh_in'.kind = "Request" /\ dh_in'.what \in {"MData", "AData"}
    \/ dh_in'.kind = "Response" /\ dh_in'.what \in {"MutationOk", "MutationErr"}
    \/ /\ dh_in'.kind = "Response"
       /\ dh_in'.what \in {"GetIDataOk", "GetIDataErr"}
       /\ dup_stored' = dup_stored
    \/ dh_in'.kind = "DuplicationComplete"
    \/ dh_in'.kind = "MemberLost"

\* C14: a node that is not an Elder (no idata, mdata or adata handler)
\* answers every message meant for an Elder with no action and no change of
\* state.
C14_AdultDropsElderMessages ==
    [][~idata_handler.present /\ ElderOnlyStep => Dropped]_vars

\* C14 case: an Adult holding a chunk was handed a client's Put and dropped it.
C14_AdultDroppedClientPut ==
    /\ ~idata_handler.present
    /\ idata_holder # {}
    /\ dh_in.kind = "Request" /\ dh_in.src = "Node"
    /\ dh_in.requester = "Client" /\ dh_in.what = "Put"
    /\ dh_ret = NoAction

\* A message of a kind the data handler does not recognise: a Coins,
\* LoginPacket or Client request, a response other than Mutation or GetIData,
\* a DuplicationComplete whose response is not Mutation.
UnrecognisedStep ==
    \/ /\ dh_in'.kind = "Request"
       /\ dh_in'.what \notin IDataRequests \cup {"MData", "AData"}
    \/ /\ dh_in'.kind = "Response"
       /\ ~IsMutationResponse(dh_in'.what)
       /\ dh_in'.what \notin {"GetIDataOk", "GetIDataErr"}
    \/ /\ dh_in'.kind = "DuplicationComplete"
       /\ ~IsMutationResponse(dh_in'.what)

\* C15: in every role a message of a kind the data handler does not
\* recognise is dropped: no action is returned and no state changes.
C15_UnrecognisedDropped ==
    [][UnrecognisedStep => Dropped]_vars

\* C15 case: an Elder with a client operation pending and a duplication in
\* progress dropped a response that is neither Mutation nor GetIData.
C15_ElderDroppedOtherResponse ==
    /\ idata_handler.present
    /\ idata_handler.ops # {}
    /\ idata_duplicate_op # {}
    /\ dh_in.kind = "Response"
    /\ dh_in.what = "GetMData"
    /\ dh_ret = NoAction

(***************************************************************************)
(* Adult: chunks are stored only under a section signature                 *)
(***************************************************************************)
SignatureVerifies(msg) == ValidateSectionSignature(msg.key_known, msg.sig)

\* C16: an Adult never stores a chunk unless the signature that comes with it
\* verifies against the current section public key over the serialized
\* request; a message whose signature does not verify is dropped with no
\* action and no change of the chunk storage, whether the requester is a
\* client or a node.
C16_StoresOnlyUnderSectionSignature ==
    [][/\ (chunk_storage' # chunk_storage => SignatureVerifies(ad_in'))
       /\ (~SignatureVerifies(ad_in') =>
             /\ ad_ret' = NoAction
             /\ chunk_storage' = chunk_storage)]_vars

(***************************************************************************)
(* TransferStore                                                           *)
(***************************************************************************)
\* C17: after any n successful try_insert calls on an initially empty store,
\* get_all returns exactly those n events, each once, in insertion order
\* (ascending numeric key order, not the string order of the keys).
C17_GetAllInInsertionOrder == GetAll(ts_db) = ts_log

\* C17 case: eleven events are stored, and their keys ordered as strings
\* would give another sequence.
C17_PastTenEvents ==
    /\ Len(ts_log) = 11
    /\ ts_op = "try_insert"
    /\ ts_ret.ok
    /\ GetAllStringOrder(ts_db) # ts_log

StoredKeys == {e[1] : e \in ts_db}

\* C18: with n stored events the set of keys is exactly {0, ..., n-1}: keys
\* are assigned increasing from 0 with no gap and no repeat.
C18_KeysGapFree ==
    LET n == Cardinality(ts_db) IN
    /\ Cardinality(StoredKeys) = n
    /\ StoredKeys = {UsizeToString(i) : i \in 0..(n - 1)}
    /\ {ParseKey(k) : k \in StoredKeys} = 0..(n - 1)

\* C18 case: the store was filled after an insert that failed on disk and a
\* restart.
C18_StoreFilled ==
    /\ Cardinality(ts_db) = 10
    /\ ts_left = 0
    /\ ts_op = "restart"

\* The key equal to the current key count is already in the store.
KeyAtCountExists ==
    \E e \in ts_db : ParseKey(e[1]) = Cardinality(ts_db)

\* C19: try_insert returns an error whenever the key equal to the current
\* key count already exists, and then the store content is unchanged (the
\* existing entry is not overwritten).
C19_ExistingKeyRejected ==
    [][ts_left' < ts_left /\ KeyAtCountExists =>
         /\ ~ts_ret'.ok
         /\ ts_ret'.err = "Logic"
         /\ ts_db' = ts_db
         /\ ts_disk' = ts_disk]_vars

\* C19 case: a store opened on a file with a gap in its keys refused an
\* insert.
C19_InsertRefused ==
    /\ ts_op = "try_insert"
    /\ ts_ret.err = "Logic"
    /\ KeyAtCountExists
    /\ ts_left < MaxOpenedInserts

RECURSIVE Balance(_)
Balance(events) ==
    IF events = <<>> THEN 0 ELSE events[1].amount + Balance(Tail(events))

EventCount(db, event) == Cardinality({e \in db : e[2] = event})

RegisteredBeforePropagated(db, id) ==
    \A e \in db : e[2] = Propagated(id) =>
        \E f \in db : f[2] = Registered(id) /\ ParseKey(f[1]) < ParseKey(e[1])

C23_LockFreeWhileSuspended ==
    \A t \in PayTasks : rp_lock # t


(***************************************************************************)
(* C26  Pruning of the duplication dedup set                               *)
(***************************************************************************)
\* C26: every message id that is in idata_duplicate_op is eventually removed
\* from it (on DuplicationComplete or on a timeout); no id stays forever.
C26_DedupIdEventuallyRemoved ==
    \A m \in MsgIds : (m \in idata_duplicate_op) ~> (m \notin idata_duplicate_op)

(***************************************************************************)
(* C27  A duplication completes by storing the fetched chunk               *)
(***************************************************************************)
\* The step handled a GetIData(Ok) response with message id m.
IsGetIDataOkStep(m) ==
    /\ dh_in'.kind = "Response"
    /\ dh_in'.what = "GetIDataOk"
    /\ dh_in'.message_id = m

\* The chunk holder was asked to store the chunk of the address, with this
\* node as the requester and message id m.
StoredByOurselves(m) ==
    \E a \in Addrs, has_space \in BOOLEAN :
       /\ idata_holder' = HolderStoreChunks(idata_holder, a, has_space)
       /\ dh_ret' = [kind |-> "RespondToSrc",
                     response |-> IF a \in idata_holder THEN "MutationErrAlreadyExists"
                                  ELSE IF ~has_space THEN "MutationErrQuotaExceeded"
                                  ELSE "MutationOk",
                     address |-> a, requester |-> "NodeSelf", message_id |-> m]

\* C27: when a GetIData response carrying Ok(data) arrives for a message id m
\* that is in idata_duplicate_op, the node stores the data in its own chunk
\* holder with itself as the requester and id m, and the duplication of m is
\* over (m leaves the set); at any time at most one duplication is in progress
\* per message id (Gets emitted for m exceed the copies stored by at most one).
C27_DuplicationStoresFetchedChunk ==
    /\ [][\A m \in MsgIds :
            IsGetIDataOkStep(m) /\ m \in idata_duplicate_op
               => /\ StoredByOurselves(m)
                  /\ m \notin idata_duplicate_op']_vars
    /\ [](\A m \in MsgIds : gets_sent[m] - dup_stored[m] \in {0, 1})

\* C27 case: the duplication of id 1 was ordered and its Get answered with the
\* chunk, which is now on this node's disk.
C27_FetchedChunkStored ==
    /\ dh_in.kind = "Response" /\ dh_in.what = "GetIDataOk" /\ dh_in.message_id = 1
    /\ gets_sent[1] = 1
    /\ dup_stored[1] = 1
    /\ dh_ret.kind = "RespondToSrc"
    /\ dh_ret.response = "MutationOk"
    /\ "A" \in idata_holder

(***************************************************************************)
(* C28  Responses to operations that are no longer pending                 *)
(***************************************************************************)
\* The operations a response can belong to: a duplication in progress at this
\* node, or an op of the Elder chunk handler.
IsPending(m) == m \in idata_duplicate_op \/ m \in idata_handler.ops

\* C28: a response whose message id belongs to no pending operation (the
\* operation completed or was dropped, as for the second and later GetIData
\* responses to one duplication Get) is discarded: no action is returned,
\* nothing is stored and no state of the handler changes.
C28_LateResponseDiscarded ==
    [][\A m \in MsgIds :
          dh_in'.kind = "Response" /\ dh_in'.message_id = m /\ ~IsPending(m)
             => /\ dh_ret' = NoAction
                /\ UNCHANGED <<idata_holder, idata_handler, idata_duplicate_op>>]_vars

\* C28 case: the Get of duplication 1 was answered twice with the chunk; the
\* first answer was stored and the second one found no duplication pending.
C28_SecondAnswerArrived ==
    /\ dh_in.kind = "Response" /\ dh_in.what = "GetIDataOk" /\ dh_in.message_id = 1
    /\ gets_sent[1] = 1
    /\ dup_stored[1] = 1
    /\ 1 \notin idata_duplicate_op
    /\ dh_ret = NoAction
    /\ idata_holder = {"A"}

(***************************************************************************)
(* C29  Payments acts on Cmd::Data only                                    *)
(***************************************************************************)
\* C29: for a message that is not a Cmd::Data, process_payment returns no
\* operation, makes no call on the replica and leaves the replica's state (its
\* key set and its transfer store) as it was.
C29_OtherMessagesLeftAlone ==
    [][pay_in'.kind # "CmdData"
          => /\ pay_ret' = NoAction
             /\ pay_calls' = <<>>
             /\ UNCHANGED <<transfer_db, replicas_pk_set>>]_vars

\* C29 case: a query was handed to process_payment of a replica that holds
\* registered payments.
C29_QueryAfterPayments ==
    /\ pay_in.kind = "Query"
    /\ pay_ret = NoAction
    /\ pay_calls = <<>>
    /\ transfer_db # {}

(***************************************************************************)
(* C30  TransferStore is append-only                                       *)
(***************************************************************************)
IsPrefixOf(s, t) == Len(s) <= Len(t) /\ SubSeq(t, 1, Len(s)) = s

\* C30: no operation of the store removes or changes an entry, and what
\* get_all returned before an operation is a prefix of what it returns after.
C30_AppendOnly ==
    [][/\ ts_db \subseteq ts_db'
       /\ ts_db' # ts_db => IsPrefixOf(GetAll(ts_db), GetAll(ts_db'))]_vars

\* C30 case: a third event was appended to a store holding two.
C30_ThirdEventAppended ==
    /\ ts_op = "try_insert"
    /\ ts_ret.ok
    /\ Cardinality(ts_db) = 3
    /\ Len(GetAll(ts_db)) = 3

(***************************************************************************)
(* C24  The copies of a stored address after the network has settled       *)
(***************************************************************************)
\* The expected_num_of_holders nodes closest to the data
ClosestNodes(len) == {TestNodes[i] : i \in 1..len}

OnlyLostHolder(a) ==
    /\ Len(sec_removed) = 1
    /\ sec_removed[1] = [node |-> a, held |-> TRUE]

C31_OneOperationPerDataCmd ==
    pay_in.kind = "CmdData"
       => \/ /\ pay_ret.kind = "Error"
             /\ pay_ret.to = pay_in.origin
             /\ pay_ret.correlation_id = pay_in.id
          \/ /\ pay_ret.kind = "Forward"
             /\ pay_ret.msg_id = pay_in.id

(***************************************************************************)
(* C32  The Get emitted for a DuplicateOrder                               *)
(***************************************************************************)
\* C32: whatever a DuplicateOrder makes the node send is one Get that carries
\* the order's message id, names this node (PublicId::Node) as the requester,
\* asks for the order's address and goes to exactly the order's holders.
C32_GetCarriesTheOrder ==
    [][dh_in'.kind = "Duplicate" /\ dh_ret' # NoAction
          => /\ dh_ret'.kind = "SendMessage"
             /\ dh_ret'.request = "Get"
             /\ dh_ret'.message_id = dh_in'.message_id
             /\ dh_ret'.requester = "Node"
             /\ dh_ret'.requester_id = "self"
             /\ dh_ret'.sender = "self"
             /\ dh_ret'.address = dh_in'.address
             /\ dh_ret'.targets = dh_in'.holders]_vars

\* C32 case: an order with id 2 for two holders arrived after an order with
\* id 1 for one holder, and its Get went out.
C32_SecondOrderAnswered ==
    /\ dh_in.kind = "Duplicate"
    /\ dh_in.message_id = 2
    /\ dh_in.holders = {"n1", "n2"}
    /\ dh_ret.kind = "SendMessage"
    /\ idata_duplicate_op = {1, 2}

(***************************************************************************)
(* C33  One store per duplication Get                                      *)
(***************************************************************************)
\* The step handled a response by storing a copy for message id m on behalf
\* of this node.
StoredCopyFor(m) ==
    /\ dh_in'.kind = "Response"
    /\ dh_in'.message_id = m
    /\ dh_ret'.kind = "RespondToSrc"
    /\ dh_ret'.requester = "NodeSelf"

\* The ids the step brought into idata_duplicate_op
Inserted == idata_duplicate_op' \ idata_duplicate_op

\* C33: a response is stored as the copy of duplication m only while m is in
\* idata_duplicate_op, and storing it takes m out of the set; m comes into
\* the set by a DuplicateOrder with id m and by nothing else. So after the
\* first Ok response for m is handled, a later response with id m is stored
\* only if a new DuplicateOrder with id m arrived in between.
C33_StoredOncePerOrder ==
    [][LET m == dh_in'.message_id IN
       /\ StoredCopyFor(m)
             => m \in idata_duplicate_op /\ m \notin idata_duplicate_op'
       /\ Inserted # {}
             => dh_in'.kind = "Duplicate" /\ Inserted = {m}]_vars

\* C33 case: three Ok responses for id 2 were handled around two orders with
\* id 2, and two of them were stored.
C33_TwoOrdersTwoStores ==
    /\ gets_sent[2] = 2
    /\ dup_stored[2] = 2
    /\ dh_in.kind = "Response" /\ dh_in.what = "GetIDataOk" /\ dh_in.message_id = 2
    /\ dh_ret = NoAction

(***************************************************************************)
(* C34  What idata_duplicate_op holds                                      *)
(***************************************************************************)
IsDuplicateOrderStep(m) == dh_in'.kind = "Duplicate" /\ dh_in'.message_id = m

IsGetIDataErrStep(m) ==
    /\ dh_in'.kind = "Response"
    /\ dh_in'.what = "GetIDataErr"
    /\ dh_in'.message_id = m

\* C34: the set is empty until an order is received; a DuplicateOrder with id m leaves m in the set,
\* an Ok GetIData response with id m leaves m out of it, and every other step
\* keeps m where it was: so m is in the set exactly when an order with id m
\* was received and no Ok response with id m was handled since. An Err
\* GetIData response for an id in the set returns no action and keeps the id.
C34_InSetFromOrderToOkResponse ==
    [][/\ orders_rcvd = 0 => idata_duplicate_op = {}
       /\ LET m == dh_in'.message_id IN
           IF IsDuplicateOrderStep(m)
           THEN idata_duplicate_op' = idata_duplicate_op \cup {m}
           ELSE IF IsGetIDataOkStep(m)
           THEN idata_duplicate_op' = idata_duplicate_op \ {m}
           ELSE /\ idata_duplicate_op' = idata_duplicate_op
                /\ IsGetIDataErrStep(m) /\ m \in idata_duplicate_op
                      => dh_ret' = NoAction]_vars

\* C34 case: the Get of duplication 2 was answered by an error, and 2 is
\* still in the set.
C34_ErrorAnswerKeptTheId ==
    /\ dh_in.kind = "Response" /\ dh_in.what = "GetIDataErr" /\ dh_in.message_id = 2
    /\ gets_sent[2] = 1
    /\ 2 \in idata_duplicate_op
    /\ dh_ret = NoAction

(***************************************************************************)
(* C35  What changes idata_duplicate_op                                    *)
(***************************************************************************)
\* C35: the set changes only by the insert of a DuplicateOrder's id and by
\* the removal of the id of an Ok GetIData response that was in it; every
\* Request, every Mutation response, every DuplicationComplete and
\* trigger_chunk_duplication leave it as it was.
C35_OnlyOrdersAndOkResponsesChangeTheSet ==
    [][/\ idata_duplicate_op' # idata_duplicate_op
          => LET m == dh_in'.message_id IN
                \/ /\ IsDuplicateOrderStep(m)
                   /\ m \notin idata_duplicate_op
                   /\ idata_duplicate_op' = idata_duplicate_op \cup {m}
                \/ /\ IsGetIDataOkStep(m)
                   /\ m \in idata_duplicate_op
                   /\ idata_duplicate_op' = idata_duplicate_op \ {m}
       /\ \/ dh_in'.kind \in {"Request", "DuplicationComplete", "MemberLost"}
          \/ dh_in'.kind = "Response" /\ dh_in'.what \in {"MutationOk", "MutationErr"}
          => UNCHANGED idata_duplicate_op]_vars

\* C35 case: a DuplicationComplete for id 1 was handled by an Elder while
\* duplication 1 was in progress at it.
C35_CompletionWhileInProgress ==
    /\ dh_in.kind = "DuplicationComplete"
    /\ dh_in.message_id = 1
    /\ dh_in.what = "MutationOk"
    /\ idata_handler.present
    /\ idata_duplicate_op = {1}

(***************************************************************************)
(* C36  What an Adult's response handler writes                            *)
(***************************************************************************)
\* C36: handling a response changes the chunk storage only when the response
\* is GetIData with Ok(data), a proof is attached and the requester is a
\* node; a response without proof, a GetIData for a client requester, a
\* GetIData Err and every other kind of response return no action and leave
\* the chunk storage as it was.
C36_ResponseWritesOnlyNodeCopies ==
    [][ad_in'.kind = "Response"
          => /\ chunk_storage' # chunk_storage
                   => /\ ad_in'.what = "GetIDataOk"
                      /\ ad_in'.sig # "None"
                      /\ ad_in'.requester = "Node"
             /\ \/ ad_in'.sig = "None"
                \/ ad_in'.requester # "Node"
                \/ ad_in'.what # "GetIDataOk"
                => /\ ad_ret' = NoAction
                   /\ chunk_storage' = chunk_storage]_vars

\* C36 case: a GetIData Ok for a client requester, with a valid proof, came
\* to an Adult that holds a chunk and was dropped.
C36_ClientCopyDropped ==
    /\ ad_in.kind = "Response"
    /\ ad_in.what = "GetIDataOk"
    /\ ad_in.requester = "Client"
    /\ ad_in.sig = "Valid" /\ ad_in.key_known
    /\ ad_ret = NoAction
    /\ chunk_storage = {"A"}

(***************************************************************************)
(* C37  Duties that need a capability the node lacks                       *)
(***************************************************************************)
\* The capability a duty needs is absent from the node.
Lacks(cap) ==
    CASE cap = "chunks" -> ~chunks
      [] cap = "meta_data" -> ~meta_data
      [] cap = "transfers" -> ~transfers
      [] OTHER -> section_funds # "Rewarding"

ElderOnly == {"rewards", "transfers", "meta_data"}

\* C37: a duty that needs a capability the node lacks (chunks, meta data,
\* transfers, section funds in Rewarding state) returns InvalidOperation and
\* leaves the node state as it was; every Elder-only duty that follows
\* LevelDown fails this way.
C37_MissingCapabilityIsInvalidOperation ==
    [][/\ \A cap \in Capabilities :
              node_duty' = cap /\ Lacks(cap)
                  => /\ node_ret' = "InvalidOperation"
                     /\ UNCHANGED <<genesis_stage, chunks, meta_data, transfers,
                                    section_funds, genesis_events>>
       /\ node_duty = "LevelDown" /\ node_duty' \in ElderOnly
              => node_ret' = "InvalidOperation"]_vars

\* C37 case: a node that had been levelled up was levelled down, and the
\* transfer duty that came next was refused.
C37_ElderDutyRefusedAfterLevelDown ==
    /\ node_duty = "transfers"
    /\ node_ret = "InvalidOperation"
    /\ genesis_events = 1
    /\ chunks /\ ~meta_data /\ ~transfers /\ section_funds = "None"

(***************************************************************************)
(* C38  Errors in the genesis duties                                       *)
(***************************************************************************)
GenesisDuties == {"BeginFormingGenesisSection", "ReceiveGenesisProposal",
                  "ReceiveGenesisAccumulation"}

\* C38: a genesis duty (BeginFormingGenesisSection, ReceiveGenesisProposal,
\* ReceiveGenesisAccumulation) that returns an error keeps genesis_stage at
\* its previous value and does not call level_up; level_up with a genesis
\* transaction is called only in a step in which the stage is Completed.
C38_GenesisErrorKeepsStage ==
    [][/\ node_duty' \in GenesisDuties /\ node_ret' # "Ok"
             => /\ genesis_stage' = genesis_stage
                /\ genesis_level_ups' = genesis_level_ups
       /\ genesis_level_ups' # genesis_level_ups
             => /\ node_duty' = "ReceiveGenesisAccumulation"
                /\ genesis_stage'.stage = "Completed"]_vars

(***************************************************************************)
(* C39  nodes_and_clients                                                  *)
(***************************************************************************)
\* C39: nodes_and_clients returns only after a full round in which no node
\* and no client handled an event, with every event queue empty; its result
\* is the number of events handled in all; and once the nodes and clients
\* stop producing events it returns.
C39_ReturnsAfterAnIdleRound ==
    /\ [](pl_pc = "returned"
             => /\ pl_round = 0
                /\ \A p \in PollerNames : pl_queue[p] = 0
                /\ pl_result = pl_handled)
    /\ <>(pl_pc = "returned")

\* C39 case: the events queued at the call and the two produced meanwhile
\* were all handled before the return.
C39_ReturnedAfterProducedEvents ==
    /\ pl_pc = "returned"
    /\ pl_left = 0
    /\ pl_result = 5
======================================================================
